---- MODULE Spec2Model ----
(***************************************************************************)
(* A model of the session, concurrency and task-queue management of the    *)
(* llama.cpp WASI-NN backend (src/src/wasi_nn_llama.cpp).                   *)
(*                                                                         *)
(* The specifications share the variables:                                 *)
(*   Spec        the public session API called by one caller at a time     *)
(*   SpecThreads init_execution_context / close_execution_context called   *)
(*               from several threads, one memory access per step          *)
(*   SpecQueue   wasi_nn_task_queue with producers, the task processor     *)
(*               thread and shutdown                                       *)
(*   SpecPriority the queue while the backend runs, holding enough tasks   *)
(*               for the priority order to show                            *)
(*   SpecInference the session API with compute and two model files        *)
(*   SpecShutdown the task processor thread, its wait on the condition     *)
(*               variable, producers and ~LlamaChatContext                 *)
(*   SpecSwitch  load_by_name_with_config and run_inference called from    *)
(*               several threads                                           *)
(*   SpecSampling run_inference with and without a runtime configuration   *)
(*   SpecMemory  perform_context_shift on a KV cache                       *)
(*   SpecDrain   wait_for_tasks_completion against the running queue       *)
(*   SpecWorker  the task processor thread of a running backend            *)
(*   SpecCancel  compute, close_execution_context and the task processor   *)
(*   SpecConfig  load_by_name_with_config and the model parameters         *)
(*   SpecCache   clear_partial_kv_cache and optimize_token_cache           *)
(*   SpecPressure compute with the cache and memory policy                 *)
(***************************************************************************)
EXTENDS Integers, Sequences, FiniteSets, TLC

\* ---------------------------------------------------------------- bounds
MaxSessionsBound == 2
MaxConcurrentBound == 3
MaxIdleTimeout == 1
MaxTime == 2
MaxExecCtx == 3
NumThreads == 2
MaxQueueSizeBound == 2
MaxTasks == 3
MaxRejected == 1
MaxPriorityTasks == 4
MaxComputeTasks == 1
MaxCtx == 5
MaxKeep == 4
MaxDiscard == 2
MaxLiveTasks == 2
MaxCacheTokens == 2
MaxPasses == 2
MaxCacheCtx == 8

\* max_sessions and max_concurrent are drawn from 1..MaxSessionsBound and
\* 1..MaxConcurrentBound, idle_timeout_ms (in clock ticks) from
\* 1..MaxIdleTimeout; the steady clock runs from 0 to MaxTime; no execution
\* context is created once next_exec_ctx_id has passed MaxExecCtx; SpecThreads
\* runs NumThreads caller threads. max_queue_size is drawn from
\* 1..MaxQueueSizeBound; SpecQueue accepts MaxTasks tasks and rejects
\* MaxRejected in all.
\* SpecPriority accepts MaxPriorityTasks tasks, in a queue that holds up to as
\* many. SpecInference queues MaxComputeTasks tasks and rejects MaxRejected.

\* SpecWorker accepts MaxLiveTasks tasks.
\* SpecMemory draws the context size from 1..MaxCtx, n_keep_tokens from
\* 0..MaxKeep and n_discard_tokens from 0..MaxDiscard.

\* LlamaChatContext::default_task_timeout_ms, in ticks of the model's clock
DefaultTaskTimeout == 1

NULL == "nullptr"

\* params.sampling.temp as the backend configuration leaves it, and the
\* temperatures a runtime configuration can name
BaseTemperature == 0
RuntimeTemperatures == {1}
ModelFiles == {"a.gguf"}
Threads == 1..NumThreads
\* the sequence ids of the KV cache, one per session
SeqIds == {1, 2}

\* enum wasi_nn_task_priority
WASI_NN_PRIORITY_LOW == 0
WASI_NN_PRIORITY_NORMAL == 1
WASI_NN_PRIORITY_HIGH == 2
WASI_NN_PRIORITY_URGENT == 3
Priorities == {WASI_NN_PRIORITY_LOW, WASI_NN_PRIORITY_NORMAL,
               WASI_NN_PRIORITY_HIGH, WASI_NN_PRIORITY_URGENT}

VARIABLES
  \* configuration, fixed by init_backend_with_config
  max_sessions, idle_timeout_ms, auto_cleanup_enabled, max_concurrent,
  \* LlamaChatContext
  sessions,             \* exec_ctx -> last_activity
  next_exec_ctx_id,
  active_sessions,
  model,                \* server_ctx.model: NULL or the file it was loaded from
  params_base_path,     \* server_ctx.params_base.model.path
  current_model_path,
  model_swap_mutex,     \* the thread that holds the mutex, 0 when it is free
  model_swapping_in_progress,
  \* caller threads of SpecSwitch
  sw_pc,                \* thread -> its place in load_by_name_with_config
  sw_waited,            \* thread -> it has blocked in the lock of the mutex
  now,                  \* std::chrono::steady_clock::now()
  last,                 \* the last call: its arguments, result and pre-state
  \* caller threads of SpecThreads
  pc,                   \* thread -> the statement it executes next
  t_id,                 \* thread -> new_exec_ctx, its local copy of the id
  t_cnt,                \* thread -> the value of active_sessions it has read
  \* wasi_nn_task_queue
  high_priority_queue, normal_priority_queue, low_priority_queue,
  max_queue_size, default_task_timeout_ms, current_size, running,
  next_task_id,
  tasks_queued, tasks_completed, tasks_timeout, tasks_rejected,
  \* the task processor thread started by init_backend_with_config
  worker_pc,            \* "dequeue", "process" or "terminated"
  worker_task,          \* the task it holds while it processes
  \* observer: the priorities accepted and delivered so far, while the calls
  \* follow the course "enqueue low, urgent, normal, urgent, then dequeue"
  scenario,
  \* the condition variable and the thread that destroys the backend
  wake,                 \* queue_condition has notified the waiting worker
  dtor_pc,              \* "idle", "notify", "join" or "done"
  \* the sampling state of server_ctx
  smpl,                 \* slots[0].smpl: <<>> for nullptr, else <<temperature>>
  \* the memory policy of LlamaChatContext and the KV cache of the engine;
  \* SpecMemory alone follows them
  context_shifting_enabled, n_keep_tokens, n_discard_tokens,
  n_ctx,                \* llama_n_ctx(server_ctx.ctx)
  kv_cells,             \* sequence id -> the cells [pos, tok] it holds
  \* the model parameters; SpecConfig alone follows them
  params_base,          \* server_ctx.params_base: n_ctx and n_gpu_layers
  backup_params,        \* chat_ctx->backup_params
  config_json,          \* the config argument of the last load
  \* the cache and memory policy of LlamaChatContext; SpecCache and
  \* SpecPressure alone follow them
  enable_partial_cache_deletion, cache_deletion_strategy,
  enable_token_cache_reuse, max_cache_tokens, cache_hits, cache_misses,
  max_memory_mb,
  memory_pressure_threshold,  \* in hundredths: 85 for 0.85f
  current_memory_usage,       \* in MB, as check_memory_pressure reads it
  rss_mb                \* VmRSS of the process, in MB

memVars == <<context_shifting_enabled, n_keep_tokens, n_discard_tokens, n_ctx,
             kv_cells>>
parVars == <<params_base, backup_params, config_json>>
\* the policy that the configuration fixes, and what compute updates
polVars == <<enable_partial_cache_deletion, cache_deletion_strategy,
             enable_token_cache_reuse, max_cache_tokens, max_memory_mb,
             memory_pressure_threshold, rss_mb>>
optVars == <<cache_hits, cache_misses, current_memory_usage>>
confVars == <<max_sessions, idle_timeout_ms, auto_cleanup_enabled,
              max_concurrent, memVars, parVars, polVars, optVars>>
smplVars == <<smpl>>
\* what only init_execution_context, a model switch and run_inference with a
\* runtime configuration can change
cfgVars == <<confVars, smplVars>>
ctxVars == <<sessions, next_exec_ctx_id, active_sessions>>
swapVars == <<model_swap_mutex, model_swapping_in_progress, sw_pc, sw_waited>>
modelVars == <<model, params_base_path, current_model_path, swapVars>>
thrVars == <<pc, t_id, t_cnt>>
dequeVars == <<high_priority_queue, normal_priority_queue, low_priority_queue>>
statVars == <<tasks_queued, tasks_completed, tasks_timeout, tasks_rejected>>
shutVars == <<wake, dtor_pc>>
queueVars == <<dequeVars, max_queue_size, default_task_timeout_ms,
               current_size, running, next_task_id, statVars, worker_pc,
               worker_task, scenario, shutVars>>
vars == <<cfgVars, ctxVars, modelVars, now, last, thrVars, queueVars>>

\* ---------------------------------------------------------------- helpers
Restrict(S, D) == [h \in D |-> S[h]]

Min(a, b) == IF a < b THEN a ELSE b

\* (now - last_activity) > idle_timeout
IsIdle(last_activity, t) == (t - last_activity) > idle_timeout_ms

\* first loop of auto_cleanup_sessions: erase every idle session
RemoveIdle(S, t) == Restrict(S, {h \in DOMAIN S : ~IsIdle(S[h], t)})

\* sessions_to_remove = sessions.size() - max_sessions + 1
SessionsToRemove(size) == size - max_sessions + 1

\* the sort descending: the n youngest sessions
OldestSets_Youngest(S, n) ==
  {R \in SUBSET DOMAIN S :
     /\ Cardinality(R) = Min(n, Cardinality(DOMAIN S))
     /\ \A r \in R : \A o \in DOMAIN S \ R : S[r] >= S[o]}

\* sorted_sessions[0 .. n-1] after std::sort by last_activity ascending: any set
\* of n sessions none of which is younger than a session left out (std::sort is
\* not stable and the map is unordered, so ties are broken either way)
OldestSets(S, n) ==
  {R \in SUBSET DOMAIN S :
     /\ Cardinality(R) = Min(n, Cardinality(DOMAIN S))
     /\ \A r \in R : \A o \in DOMAIN S \ R : S[r] <= S[o]}

\* second part of auto_cleanup_sessions: LRU eviction when at max_sessions
RemoveExcess(S) ==
  IF Cardinality(DOMAIN S) >= max_sessions
  THEN {Restrict(S, DOMAIN S \ R) :
          R \in OldestSets(S, SessionsToRemove(Cardinality(DOMAIN S)))}
  ELSE {S}

\* auto_cleanup_sessions: the session maps it can leave behind
AutoCleanupSessions(S, t) ==
  IF ~auto_cleanup_enabled THEN {S} ELSE RemoveExcess(RemoveIdle(S, t))

\* the limit test admitting one session more
ConcurrencyLimitReached_OffByOne(active) == active > max_concurrent

\* if (active_sessions + 1 > max_concurrent)
ConcurrencyLimitReached(active) == active + 1 > max_concurrent

\* a close that leaves the counter alone
DecrementActive_Skip(active) == active

\* if (active_sessions > 0) active_sessions--
DecrementActive(active) == IF active > 0 THEN active - 1 ELSE active

\* the record of a call: what it was given, what it returned and the session
\* and model state it started from
Call(op, h, result) ==
  [op |-> op, h |-> h, result |-> result, engine_ok |-> TRUE,
   sessions |-> sessions, active |-> active_sessions,
   model |-> model, path |-> current_model_path,
   load_ok |-> TRUE, restore_ok |-> TRUE]

\* wasi_nn_task task; of the task processor thread while it holds no task
NoTask == [id |-> -1]

\* model_swap_mutex free and model_swapping_in_progress(false)
SwapIdle ==
  /\ model_swap_mutex = 0
  /\ model_swapping_in_progress = FALSE
  /\ sw_pc = [t \in Threads |-> "idle"]
  /\ sw_waited = [t \in Threads |-> FALSE]

\* no slot has a sampler before the first init_execution_context
SamplerUnset ==
  /\ smpl = <<>>

\* the memory policy and an empty KV cache, where they are not followed
\* a cJSON key that the configuration does not hold
Unset == -1

\* const char *config == nullptr
NoConfig == [present |-> FALSE, n_ctx |-> Unset, n_gpu_layers |-> Unset]

\* the model parameters of a backend that has loaded nothing yet; every load
\* assigns them before it reads them
ParamsUntracked ==
  /\ params_base = [n_ctx |-> 0, n_gpu_layers |-> 0]
  /\ backup_params = [n_ctx |-> 0, n_gpu_layers |-> 0]
  /\ config_json = NoConfig

\* memory_pressure_threshold(0.85f), in hundredths
DefaultPressureThreshold == 85

\* a backend configured with "enable_token_cache_reuse": false and no memory
\* limit: auto_optimize_memory finds no pressure and optimize_token_cache
\* returns at its first test
PolicyUntracked ==
  /\ enable_partial_cache_deletion = TRUE
  /\ cache_deletion_strategy = "lru"
  /\ enable_token_cache_reuse = FALSE
  /\ max_cache_tokens = 1
  /\ cache_hits = 0
  /\ cache_misses = 0
  /\ max_memory_mb = 0
  /\ memory_pressure_threshold = DefaultPressureThreshold
  /\ current_memory_usage = 0
  /\ rss_mb = 0

MemoryUntracked ==
  /\ context_shifting_enabled = TRUE
  /\ n_keep_tokens = 0
  /\ n_discard_tokens = 0
  /\ n_ctx = 0
  /\ kv_cells = [s \in SeqIds |-> {}]

\* the members of a wasi_nn_task_queue as its initialisers leave them, and the
\* task processor thread about to call dequeue_task
QueueConstructed ==
  /\ high_priority_queue = <<>>
  /\ normal_priority_queue = <<>>
  /\ low_priority_queue = <<>>
  /\ current_size = 0
  /\ running = TRUE
  /\ next_task_id = 1
  /\ tasks_queued = 0
  /\ tasks_completed = 0
  /\ tasks_timeout = 0
  /\ tasks_rejected = 0
  /\ worker_pc = "dequeue"
  /\ worker_task = NoTask
  /\ scenario = [enq |-> <<>>, deq |-> <<>>, on |-> TRUE]
  /\ wake = FALSE
  /\ dtor_pc = "idle"

\* ---------------------------------------------------------------- Init
Init ==
  /\ max_sessions \in 1..MaxSessionsBound
  /\ max_concurrent \in 1..MaxConcurrentBound
  /\ idle_timeout_ms \in 1..MaxIdleTimeout
  /\ auto_cleanup_enabled \in BOOLEAN
  /\ sessions = <<>>
  /\ next_exec_ctx_id = 1
  /\ active_sessions = 0
  /\ model = NULL
  /\ params_base_path = ""
  /\ current_model_path = ""
  /\ SwapIdle
  /\ SamplerUnset
  /\ MemoryUntracked
  /\ ParamsUntracked
  /\ PolicyUntracked
  /\ now = 0
  /\ last = [op |-> "init_backend", h |-> 0, result |-> "success",
             engine_ok |-> TRUE, sessions |-> <<>>, active |-> 0,
             model |-> NULL, path |-> "", load_ok |-> TRUE,
             restore_ok |-> TRUE]
  /\ pc = [t \in Threads |-> "idle"]
  /\ t_id = [t \in Threads |-> 0]
  /\ t_cnt = [t \in Threads |-> 0]
  /\ QueueConstructed
  /\ max_queue_size = 1
  /\ default_task_timeout_ms = DefaultTaskTimeout

\* ---------------------------------------------------------------- actions
\* init_execution_context. engine_ok: setup_threadpools and common_sampler_init
\* succeed.
InitExecutionContext(engine_ok) ==
  /\ next_exec_ctx_id <= MaxExecCtx
  /\ UNCHANGED <<confVars, modelVars, now>>
  /\ IF model = NULL
     THEN /\ last' = Call("init_execution_context", 0, "invalid_argument")
          /\ UNCHANGED <<ctxVars, smpl>>
     ELSE IF ConcurrencyLimitReached(active_sessions)
     THEN /\ last' = Call("init_execution_context", 0, "runtime_error")
          /\ UNCHANGED <<ctxVars, smpl>>
     ELSE \E cleaned \in AutoCleanupSessions(sessions, now) :
            IF ~engine_ok
            THEN /\ sessions' = cleaned
                 /\ last' = [Call("init_execution_context", 0, "runtime_error")
                               EXCEPT !.engine_ok = FALSE]
                 /\ UNCHANGED <<next_exec_ctx_id, active_sessions, smpl>>
            ELSE /\ smpl' = <<BaseTemperature>>
                 /\ sessions' =
                      [h \in DOMAIN cleaned \cup {next_exec_ctx_id} |->
                         IF h = next_exec_ctx_id THEN now ELSE cleaned[h]]
                 /\ next_exec_ctx_id' = next_exec_ctx_id + 1
                 /\ active_sessions' = active_sessions + 1
                 /\ last' = Call("init_execution_context", next_exec_ctx_id,
                                 "success")

\* close_execution_context
CloseExecutionContext(exec_ctx) ==
  /\ UNCHANGED <<cfgVars, modelVars, now, next_exec_ctx_id>>
  /\ IF exec_ctx \in DOMAIN sessions
     THEN /\ sessions' = Restrict(sessions, DOMAIN sessions \ {exec_ctx})
          /\ active_sessions' = DecrementActive(active_sessions)
          /\ last' = Call("close_execution_context", exec_ctx, "success")
     ELSE /\ last' = Call("close_execution_context", exec_ctx,
                          "invalid_argument")
          /\ UNCHANGED <<sessions, active_sessions>>

\* run_inference -> run_inference_for_session_with_params
RunInference(exec_ctx) ==
  /\ UNCHANGED <<cfgVars, modelVars, now, next_exec_ctx_id, active_sessions>>
  /\ IF model = NULL
     THEN /\ last' = Call("run_inference", exec_ctx, "invalid_argument")
          /\ UNCHANGED sessions
     ELSE /\ sessions' = IF exec_ctx \in DOMAIN sessions
                         THEN [sessions EXCEPT ![exec_ctx] = now]
                         ELSE sessions
          /\ last' = Call("run_inference", exec_ctx, "success")

\* a switch that keeps the sessions of the old model
ClearedSessions_Kept == sessions

\* chat_ctx->sessions.clear()
ClearedSessions == <<>>

\* a failed switch that records the path of the model it could not load
PathAfterFailedSwitch_New(filename) == filename

\* current_model_path after a switch whose load_model(new_params) failed: the
\* assignment of Step 8 is not reached
PathAfterFailedSwitch(filename) == current_model_path

\* safe_model_switch, called by one caller with no task queued
SafeModelSwitch(filename, load_ok, restore_ok) ==
  IF load_ok
  THEN /\ model' = filename
       /\ params_base_path' = filename
       /\ current_model_path' = filename
       /\ sessions' = ClearedSessions
       /\ next_exec_ctx_id' = 1
       /\ active_sessions' = 0
       /\ last' = Call("load_by_name_with_config", 0, "success")
  ELSE /\ model' = IF restore_ok THEN params_base_path ELSE NULL
       /\ params_base_path' = filename
       /\ current_model_path' = PathAfterFailedSwitch(filename)
       /\ last' = [Call("load_by_name_with_config", 0, "runtime_error")
                     EXCEPT !.load_ok = FALSE, !.restore_ok = restore_ok]
       /\ UNCHANGED ctxVars

\* load_by_name_with_config, but for what it does to the model parameters
LoadModelFile(filename, load_ok, restore_ok) ==
  /\ UNCHANGED <<now, swapVars>>
  /\ smpl' = IF model # NULL THEN <<>> ELSE smpl
  /\ IF model # NULL
     THEN SafeModelSwitch(filename, load_ok, restore_ok)
     ELSE /\ params_base_path' = filename
          /\ UNCHANGED ctxVars
          /\ IF load_ok
             THEN /\ model' = filename
                  /\ current_model_path' = filename
                  /\ last' = Call("load_by_name_with_config", 0, "success")
             ELSE /\ last' = [Call("load_by_name_with_config", 0,
                                    "runtime_error")
                                 EXCEPT !.load_ok = FALSE]
                  /\ UNCHANGED <<model, current_model_path>>

\* load_by_name_with_config where the model parameters are not followed
LoadByNameWithConfig(filename, load_ok, restore_ok) ==
  /\ LoadModelFile(filename, load_ok, restore_ok)
  /\ UNCHANGED confVars

\* the steady clock advances
Tick ==
  /\ now < MaxTime
  /\ now' = now + 1
  /\ last' = Call("tick", 0, "success")
  /\ UNCHANGED <<cfgVars, ctxVars, modelVars>>

Next ==
  \/ \E engine_ok \in BOOLEAN :
       InitExecutionContext(engine_ok) /\ UNCHANGED <<thrVars, queueVars>>
  \/ \E exec_ctx \in 1..MaxExecCtx :
       CloseExecutionContext(exec_ctx) /\ UNCHANGED <<thrVars, queueVars>>
  \/ \E exec_ctx \in 1..MaxExecCtx :
       RunInference(exec_ctx) /\ UNCHANGED <<thrVars, queueVars>>
  \/ \E filename \in ModelFiles, load_ok \in BOOLEAN, restore_ok \in BOOLEAN :
       LoadByNameWithConfig(filename, load_ok, restore_ok) /\ UNCHANGED <<thrVars, queueVars>>
  \/ Tick /\ UNCHANGED <<thrVars, queueVars>>

Spec == Init /\ [][Next]_vars

\* ------------------------------------------------- several caller threads
\* init_execution_context and close_execution_context take no lock: a thread
\* executes them one access to the shared context at a time, and the accesses
\* of different threads interleave. Each operation on the session map is one
\* step here; active_sessions++ / -- and next_exec_ctx_id++ are a read and a
\* write.

InitThreads ==
  /\ max_sessions \in 1..MaxSessionsBound
  /\ max_concurrent \in 1..MaxConcurrentBound
  /\ idle_timeout_ms \in 1..MaxIdleTimeout
  /\ auto_cleanup_enabled \in BOOLEAN
  /\ sessions = <<>>
  /\ next_exec_ctx_id = 1
  /\ active_sessions = 0
  /\ model \in ModelFiles
  /\ params_base_path = model
  /\ current_model_path = model
  /\ SwapIdle
  /\ SamplerUnset
  /\ MemoryUntracked
  /\ ParamsUntracked
  /\ PolicyUntracked
  /\ now = 0
  /\ last = [op |-> "load_by_name_with_config", h |-> 0, result |-> "success",
             engine_ok |-> TRUE, sessions |-> <<>>, active |-> 0]
  /\ pc = [t \in Threads |-> "idle"]
  /\ t_id = [t \in Threads |-> 0]
  /\ t_cnt = [t \in Threads |-> 0]
  /\ QueueConstructed
  /\ max_queue_size = 1
  /\ default_task_timeout_ms = DefaultTaskTimeout

Goto(t, label) == pc' = [pc EXCEPT ![t] = label]

\* init_execution_context: the model and concurrency checks
T_InitCheck(t) ==
  /\ pc[t] = "idle"
  /\ next_exec_ctx_id <= MaxExecCtx
  /\ IF model = NULL \/ ConcurrencyLimitReached(active_sessions)
     THEN Goto(t, "idle")
     ELSE Goto(t, "cleanup")
  /\ UNCHANGED <<queueVars, cfgVars, ctxVars, modelVars, now, last, t_id, t_cnt>>

\* auto_cleanup_sessions(chat_ctx)
T_Cleanup(t) ==
  /\ pc[t] = "cleanup"
  /\ sessions' \in AutoCleanupSessions(sessions, now)
  /\ Goto(t, "alloc_load")
  /\ UNCHANGED <<queueVars, cfgVars, next_exec_ctx_id, active_sessions, modelVars, now,
                 last, t_id, t_cnt>>

\* new_exec_ctx = next_exec_ctx_id++ : the read
T_AllocLoad(t) ==
  /\ pc[t] = "alloc_load"
  /\ t_id' = [t_id EXCEPT ![t] = next_exec_ctx_id]
  /\ Goto(t, "alloc_store")
  /\ UNCHANGED <<queueVars, cfgVars, ctxVars, modelVars, now, last, t_cnt>>

\* new_exec_ctx = next_exec_ctx_id++ : the write
T_AllocStore(t) ==
  /\ pc[t] = "alloc_store"
  /\ next_exec_ctx_id' = t_id[t] + 1
  /\ Goto(t, "insert")
  /\ UNCHANGED <<queueVars, cfgVars, sessions, active_sessions, modelVars, now, last,
                 t_id, t_cnt>>

\* sessions[new_exec_ctx] = std::move(session_info)
T_Insert(t) ==
  /\ pc[t] = "insert"
  /\ sessions' = [h \in DOMAIN sessions \cup {t_id[t]} |->
                    IF h = t_id[t] THEN now ELSE sessions[h]]
  /\ Goto(t, "inc_load")
  /\ UNCHANGED <<queueVars, cfgVars, next_exec_ctx_id, active_sessions, modelVars, now,
                 last, t_id, t_cnt>>

\* active_sessions++ : the read
T_IncLoad(t) ==
  /\ pc[t] = "inc_load"
  /\ t_cnt' = [t_cnt EXCEPT ![t] = active_sessions]
  /\ Goto(t, "inc_store")
  /\ UNCHANGED <<queueVars, cfgVars, ctxVars, modelVars, now, last, t_id>>

\* active_sessions++ : the write; init_execution_context returns success
T_IncStore(t) ==
  /\ pc[t] = "inc_store"
  /\ active_sessions' = t_cnt[t] + 1
  /\ Goto(t, "open")
  /\ UNCHANGED <<queueVars, cfgVars, sessions, next_exec_ctx_id, modelVars, now, last,
                 t_id, t_cnt>>

\* close_execution_context(new_exec_ctx): sessions.find and sessions.erase
T_CloseErase(t) ==
  /\ pc[t] = "open"
  /\ IF t_id[t] \in DOMAIN sessions
     THEN /\ sessions' = Restrict(sessions, DOMAIN sessions \ {t_id[t]})
          /\ Goto(t, "dec_load")
     ELSE /\ UNCHANGED sessions
          /\ Goto(t, "idle")
  /\ UNCHANGED <<queueVars, cfgVars, next_exec_ctx_id, active_sessions, modelVars, now,
                 last, t_id, t_cnt>>

\* if (active_sessions > 0) active_sessions-- : the read
T_DecLoad(t) ==
  /\ pc[t] = "dec_load"
  /\ t_cnt' = [t_cnt EXCEPT ![t] = active_sessions]
  /\ Goto(t, "dec_store")
  /\ UNCHANGED <<queueVars, cfgVars, ctxVars, modelVars, now, last, t_id>>

\* if (active_sessions > 0) active_sessions-- : the write
T_DecStore(t) ==
  /\ pc[t] = "dec_store"
  /\ active_sessions' = DecrementActive(t_cnt[t])
  /\ Goto(t, "idle")
  /\ UNCHANGED <<queueVars, cfgVars, sessions, next_exec_ctx_id, modelVars, now, last,
                 t_id, t_cnt>>

NextThreads ==
  \E t \in Threads :
    \/ T_InitCheck(t)
    \/ T_Cleanup(t)
    \/ T_AllocLoad(t)
    \/ T_AllocStore(t)
    \/ T_Insert(t)
    \/ T_IncLoad(t)
    \/ T_IncStore(t)
    \/ T_CloseErase(t)
    \/ T_DecLoad(t)
    \/ T_DecStore(t)

SpecThreads == InitThreads /\ [][NextThreads]_vars
\* ------------------------------------------------------ wasi_nn_task_queue
\* wasi_nn_task(): created_at = now, timeout_at = created_at + timeout_ms
NewTask(exec_ctx, priority, timeout_ms) ==
  [id |-> -1, exec_ctx |-> exec_ctx, priority |-> priority,
   timeout_at |-> now + timeout_ms]

\* the capacity test admitting one task more
QueueFull_OffByOne(size) == size > max_queue_size

\* if (current_size >= max_queue_size)
QueueFull(size) == size >= max_queue_size

\* a switch that files HIGH with URGENT instead of with NORMAL
TierOf_HighWithUrgent(priority) ==
  IF priority \in {WASI_NN_PRIORITY_URGENT, WASI_NN_PRIORITY_HIGH} THEN "high"
  ELSE IF priority = WASI_NN_PRIORITY_NORMAL THEN "normal"
  ELSE "low"

\* the switch of enqueue_task: the deque a priority goes to
TierOf(priority) ==
  IF priority = WASI_NN_PRIORITY_URGENT THEN "high"
  ELSE IF priority \in {WASI_NN_PRIORITY_HIGH, WASI_NN_PRIORITY_NORMAL}
  THEN "normal"
  ELSE "low"

\* if (now > it->timeout_at)
Expired(task, t) == t > task.timeout_at

\* a purge that erases nothing
CleanupQueue_KeepAll(queue, t) == queue

\* cleanup_queue: the deque with its expired tasks erased
CleanupQueue(queue, t) == SelectSeq(queue, LAMBDA task : ~Expired(task, t))

\* the chain with the normal deque tested first
SelectQueue_NormalFirst(high, normal, low) ==
  IF normal # <<>> THEN "normal"
  ELSE IF high # <<>> THEN "high"
  ELSE IF low # <<>> THEN "low"
  ELSE "none"

\* the if / else if chain of dequeue_task: the deque the task is taken from
SelectQueue(high, normal, low) ==
  IF high # <<>> THEN "high"
  ELSE IF normal # <<>> THEN "normal"
  ELSE IF low # <<>> THEN "low"
  ELSE "none"

QueuedTasks ==
  high_priority_queue \o normal_priority_queue \o low_priority_queue

\* the record of a queue call: what it returned and, for dequeue_task, the
\* number of tasks cleanup_expired_tasks erased
QCall(op, result) == [op |-> op, result |-> result, purged |-> 0]

ScenarioEnqueued ==
  <<WASI_NN_PRIORITY_LOW, WASI_NN_PRIORITY_URGENT,
    WASI_NN_PRIORITY_NORMAL, WASI_NN_PRIORITY_URGENT>>
ScenarioOff == [enq |-> <<>>, deq |-> <<>>, on |-> FALSE]

ObserveEnqueue(priority) ==
  IF /\ scenario.on
     /\ scenario.deq = <<>>
     /\ Len(scenario.enq) < Len(ScenarioEnqueued)
     /\ priority = ScenarioEnqueued[Len(scenario.enq) + 1]
  THEN [scenario EXCEPT !.enq = Append(@, priority)]
  ELSE ScenarioOff

ObserveDequeue(priority) ==
  IF scenario.on /\ scenario.enq = ScenarioEnqueued
  THEN [scenario EXCEPT !.deq = Append(@, priority)]
  ELSE ScenarioOff

InitBackend ==
  /\ max_sessions = 1
  /\ max_concurrent = 1
  /\ idle_timeout_ms = 1
  /\ auto_cleanup_enabled = TRUE
  /\ sessions = <<>>
  /\ next_exec_ctx_id = 1
  /\ active_sessions = 0
  /\ model = NULL
  /\ params_base_path = ""
  /\ current_model_path = ""
  /\ SwapIdle
  /\ SamplerUnset
  /\ MemoryUntracked
  /\ ParamsUntracked
  /\ PolicyUntracked
  /\ now = 0
  /\ last = QCall("init_backend", TRUE)
  /\ pc = [t \in Threads |-> "idle"]
  /\ t_id = [t \in Threads |-> 0]
  /\ t_cnt = [t \in Threads |-> 0]
  /\ QueueConstructed
  /\ default_task_timeout_ms = DefaultTaskTimeout

InitQueue ==
  /\ InitBackend
  /\ max_queue_size \in 1..MaxQueueSizeBound

\* what wasi_nn_task_queue::enqueue_task does to the queue
Enqueue(exec_ctx, priority, timeout_ms) ==
  LET task == NewTask(exec_ctx, priority, timeout_ms) IN
  /\ UNCHANGED <<max_queue_size, default_task_timeout_ms, running, worker_pc, worker_task,
                 tasks_completed, tasks_timeout>>
  /\ IF QueueFull(current_size)
     THEN /\ tasks_rejected' = tasks_rejected + 1
          /\ scenario' = ScenarioOff
          /\ UNCHANGED <<dequeVars, current_size, next_task_id, tasks_queued>>
     ELSE LET queued == [task EXCEPT !.id = next_task_id] IN
          /\ next_task_id' = next_task_id + 1
          /\ high_priority_queue' =
               IF TierOf(priority) = "high"
               THEN Append(high_priority_queue, queued)
               ELSE high_priority_queue
          /\ normal_priority_queue' =
               IF TierOf(priority) = "normal"
               THEN Append(normal_priority_queue, queued)
               ELSE normal_priority_queue
          /\ low_priority_queue' =
               IF TierOf(priority) = "low"
               THEN Append(low_priority_queue, queued)
               ELSE low_priority_queue
          /\ current_size' = current_size + 1
          /\ tasks_queued' = tasks_queued + 1
          /\ scenario' = ObserveEnqueue(priority)
          /\ UNCHANGED tasks_rejected

\* wasi_nn_task_queue::enqueue_task, called by a producer with a new task
EnqueueTask(priority, timeout_ms) ==
  /\ Enqueue(0, priority, timeout_ms)
  /\ last' = QCall("enqueue_task", ~QueueFull(current_size))

\* wasi_nn_task_queue::dequeue_task, called by the task processor thread: the
\* wait on queue_condition, cleanup_expired_tasks and the pop
DequeueTask ==
  /\ worker_pc = "dequeue"
  /\ ~running \/ QueuedTasks # <<>>
  /\ UNCHANGED <<max_queue_size, default_task_timeout_ms, running,
                 next_task_id, tasks_queued, tasks_completed, tasks_rejected>>
  /\ IF ~running
     THEN /\ worker_pc' = "terminated"
          /\ last' = QCall("dequeue_task", FALSE)
          /\ UNCHANGED <<dequeVars, current_size, tasks_timeout, worker_task,
                         scenario>>
     ELSE LET high == CleanupQueue(high_priority_queue, now)
              normal == CleanupQueue(normal_priority_queue, now)
              low == CleanupQueue(low_priority_queue, now)
              expired == Len(QueuedTasks) - Len(high) - Len(normal) - Len(low)
              from == SelectQueue(high, normal, low)
              task == IF from = "high" THEN Head(high)
                      ELSE IF from = "normal" THEN Head(normal)
                      ELSE IF from = "low" THEN Head(low)
                      ELSE NoTask
          IN
          /\ tasks_timeout' = tasks_timeout + expired
          /\ high_priority_queue' = IF from = "high" THEN Tail(high) ELSE high
          /\ normal_priority_queue' =
               IF from = "normal" THEN Tail(normal) ELSE normal
          /\ low_priority_queue' = IF from = "low" THEN Tail(low) ELSE low
          /\ worker_task' = task
          /\ IF from = "none"
             THEN /\ current_size' = current_size - expired
                  /\ worker_pc' = "dequeue"
                  /\ last' = [QCall("dequeue_task", FALSE)
                                EXCEPT !.purged = expired]
                  /\ scenario' = ScenarioOff
             ELSE /\ current_size' = current_size - expired - 1
                  /\ worker_pc' = "process"
                  /\ last' = [QCall("dequeue_task", TRUE)
                                EXCEPT !.purged = expired]
                  /\ scenario' = ObserveDequeue(task.priority)

\* the body of the task processor loop: tasks_completed++ under queue_mutex
ProcessTask ==
  /\ worker_pc = "process"
  /\ tasks_completed' = tasks_completed + 1
  /\ worker_pc' = "dequeue"
  /\ worker_task' = NoTask
  /\ last' = QCall("process_task", TRUE)
  /\ UNCHANGED <<dequeVars, max_queue_size, default_task_timeout_ms,
                 current_size, running, next_task_id, tasks_queued,
                 tasks_timeout, tasks_rejected, scenario>>

\* ~LlamaChatContext: running = false; queue_condition.notify_all()
Shutdown ==
  /\ running
  /\ running' = FALSE
  /\ last' = QCall("shutdown", TRUE)
  /\ UNCHANGED <<dequeVars, max_queue_size, default_task_timeout_ms,
                 current_size, next_task_id, statVars, worker_pc, worker_task,
                 scenario>>

\* the model accepts max_tasks tasks and rejects MaxRejected
EnqueueBounded(max_tasks) ==
  IF QueueFull(current_size)
  THEN tasks_rejected < MaxRejected
  ELSE next_task_id <= max_tasks

NextQueue ==
  \/ \E priority \in Priorities :
       /\ EnqueueBounded(MaxTasks)
       /\ EnqueueTask(priority, default_task_timeout_ms)
       /\ UNCHANGED <<cfgVars, ctxVars, modelVars, now, thrVars, shutVars>>
  \/ DequeueTask /\ UNCHANGED <<cfgVars, ctxVars, modelVars, now, thrVars, shutVars>>
  \/ ProcessTask /\ UNCHANGED <<cfgVars, ctxVars, modelVars, now, thrVars, shutVars>>
  \/ Shutdown /\ UNCHANGED <<cfgVars, ctxVars, modelVars, now, thrVars, shutVars>>
  \/ Tick /\ UNCHANGED <<thrVars, queueVars>>

SpecQueue == InitQueue /\ [][NextQueue]_vars

\* the queue while the backend runs, large enough for the tasks of the
\* priority scenario
InitPriority ==
  /\ InitBackend
  /\ max_queue_size = MaxPriorityTasks

NextPriority ==
  \/ \E priority \in Priorities :
       /\ EnqueueBounded(MaxPriorityTasks)
       /\ EnqueueTask(priority, default_task_timeout_ms)
       /\ UNCHANGED <<cfgVars, ctxVars, modelVars, now, thrVars, shutVars>>
  \/ DequeueTask /\ UNCHANGED <<cfgVars, ctxVars, modelVars, now, thrVars, shutVars>>
  \/ ProcessTask /\ UNCHANGED <<cfgVars, ctxVars, modelVars, now, thrVars, shutVars>>
  \/ Tick /\ UNCHANGED <<thrVars, queueVars>>

SpecPriority == InitPriority /\ [][NextPriority]_vars

\* ---------------------------------------------------------- KV cache
\* the record of a memory-management call: its session, its result and the
\* cells the cache held when it began
MCall(op, session_id, result) ==
  [op |-> op, h |-> session_id, result |-> result, cells |-> kv_cells]

\* the cells of a sequence that holds the tokens 0 .. used-1 at their positions
FilledCells(used) == {[pos |-> p, tok |-> p] : p \in 0..(used - 1)}

\* llama_memory_seq_rm(mem, seq_id, p0, p1): the cells of the sequence outside
\* [p0, p1); a negative p0 stands for 0 and a negative p1 for no upper end
SeqRm(cells, p0, p1) ==
  {c \in cells : ~((p0 < 0 \/ c.pos >= p0) /\ (p1 < 0 \/ c.pos < p1))}

\* llama_memory_seq_add(mem, seq_id, p0, p1, delta): the cells in [p0, p1) move
\* by delta, and a cell moved below position 0 is dropped
SeqAdd(cells, p0, p1, delta) ==
  {c \in cells : ~((p0 < 0 \/ c.pos >= p0) /\ (p1 < 0 \/ c.pos < p1))}
    \cup {[pos |-> c.pos + delta, tok |-> c.tok] :
            c \in {d \in cells : /\ (p0 < 0 \/ d.pos >= p0)
                                 /\ (p1 < 0 \/ d.pos < p1)
                                 /\ d.pos + delta >= 0}}

\* int n_past = n_ctx * 0.8f
NPastEstimate(ctx_size) == (ctx_size * 4) \div 5

\* a shift that goes on when nothing is left beyond the kept prefix
NothingToShift_Never(n_left) == FALSE

\* if (n_left <= 0)
NothingToShift(n_left) == n_left <= 0

\* n_discard = n_discard_tokens > 0 ? n_discard_tokens : (n_left / 2)
NDiscard(n_left) ==
  IF n_discard_tokens > 0 THEN n_discard_tokens ELSE n_left \div 2

\* the tracked sequences after llama_memory_seq_rm(mem, seq_id, p0, p1); a
\* sequence the model does not follow has no cells to lose
RmSeq(cells, seq_id, p0, p1) ==
  [s \in DOMAIN cells |->
     IF s = seq_id THEN SeqRm(cells[s], p0, p1) ELSE cells[s]]

\* the values the configuration accepts for "cache_deletion_strategy"
Strategies == {"lru", "fifo", "smart"}

\* an estimate that takes the whole context as cached
NCachedEstimate_Whole(ctx_size) == ctx_size

\* int n_cached = n_ctx * 0.7f
NCachedEstimate(ctx_size) == (ctx_size * 7) \div 10

\* the division of two ints in C++, which truncates toward zero
IntDiv(a, b) == IF a >= 0 THEN a \div b ELSE -((-a) \div b)

\* check_memory_pressure: (float)current_mb / max_mb >= threshold, current_mb
\* being the value stored in current_memory_usage
CheckMemoryPressure ==
  /\ max_memory_mb # 0
  /\ current_memory_usage * 100 >= memory_pressure_threshold * max_memory_mb

\* what clear_partial_kv_cache returns
ClearPartialResult(strategy) ==
  IF ~enable_partial_cache_deletion THEN "invalid_argument"
  ELSE IF model = NULL THEN "runtime_error"
  ELSE IF strategy \notin Strategies THEN "invalid_argument"
  ELSE "success"

\* a smart strategy that starts its slice right behind the kept prefix
SmartStart_AtKeep(n_keep, n_clear) == n_keep

\* const int clear_start = n_keep + n_clear / 2
SmartStart(n_keep, n_clear) == n_keep + IntDiv(n_clear, 2)

\* the range <<p0, p1>> clear_partial_kv_cache passes to llama_memory_seq_rm,
\* <<0, 0>> when it removes nothing
ClearPartialRange(strategy) ==
  LET n_past == NPastEstimate(n_ctx)
      n_keep == n_keep_tokens
  IN IF strategy = "lru"
     THEN LET n_clear == IntDiv(n_past, 4)
          IN IF n_clear > 0 THEN <<0, n_clear>> ELSE <<0, 0>>
     ELSE IF strategy = "fifo"
     THEN LET n_clear == IntDiv(n_past, 4)
          IN IF n_clear > 0 THEN <<n_past - n_clear, n_past>> ELSE <<0, 0>>
     ELSE IF strategy = "smart"
     THEN LET n_clear == IntDiv(n_past - n_keep, 2)
              clear_start == SmartStart(n_keep, n_clear)
          IN IF n_clear > 0 THEN <<clear_start, clear_start + n_clear>>
             ELSE <<0, 0>>
     ELSE <<0, 0>>

\* the cache after clear_partial_kv_cache(chat_ctx, session_id, strategy)
ClearPartialCells(cells, session_id, strategy) ==
  IF ClearPartialResult(strategy) = "success"
  THEN RmSeq(cells, session_id, ClearPartialRange(strategy)[1],
             ClearPartialRange(strategy)[2])
  ELSE cells

\* the cache after clear_kv_cache(chat_ctx, 0): llama_memory_clear
ClearedCache(cells) == [s \in DOMAIN cells |-> {}]

\* handle_memory_pressure: the partial deletion on sequence 0, the full clear
\* when that fails, and the refresh of current_memory_usage from VmRSS
HandleMemoryPressure(cells) ==
  IF ClearPartialResult(cache_deletion_strategy) = "success"
  THEN [cells |-> ClearPartialCells(cells, 0, cache_deletion_strategy),
        usage |-> rss_mb]
  ELSE IF model = NULL
  THEN [cells |-> cells, usage |-> current_memory_usage]
  ELSE [cells |-> ClearedCache(cells), usage |-> rss_mb]

\* optimize_token_cache: its result, the cache and the two counters after it
OptimizeTokenCache(cells, session_id) ==
  LET same == [result |-> "success", cells |-> cells, hits |-> cache_hits,
               misses |-> cache_misses]
  IN IF ~enable_token_cache_reuse THEN same
     ELSE IF model = NULL THEN [same EXCEPT !.result = "runtime_error"]
     ELSE IF NCachedEstimate(n_ctx) > max_cache_tokens
     THEN IF ClearPartialResult(cache_deletion_strategy) # "success"
          THEN [same EXCEPT
                  !.result = ClearPartialResult(cache_deletion_strategy)]
          ELSE [same EXCEPT
                  !.cells = ClearPartialCells(cells, session_id,
                                              cache_deletion_strategy),
                  !.hits = cache_hits + 1]
     ELSE [same EXCEPT !.misses = cache_misses + 1]

\* auto_optimize_memory: handle_memory_pressure when check_memory_pressure
\* holds, then optimize_token_cache; it returns success whatever they return
AutoOptimizeMemory(exec_ctx) ==
  LET pressure == CheckMemoryPressure
      handled == IF pressure THEN HandleMemoryPressure(kv_cells)
                 ELSE [cells |-> kv_cells, usage |-> current_memory_usage]
      optimized == OptimizeTokenCache(handled.cells, exec_ctx)
  IN [pressure |-> pressure, usage |-> handled.usage,
      cells |-> optimized.cells, hits |-> optimized.hits,
      misses |-> optimized.misses]

\* auto_perform_context_shift_session: the cache after perform_context_shift,
\* which is not called when context shifting is disabled
ContextShiftCells(cells, session_id) ==
  LET n_past == NPastEstimate(n_ctx)
      n_keep == n_keep_tokens
      n_left == n_past - n_keep
      n_discard == NDiscard(n_left)
  IN IF ~context_shifting_enabled \/ model = NULL \/ NothingToShift(n_left)
     THEN cells
     ELSE [s \in DOMAIN cells |->
             IF s = session_id
             THEN SeqAdd(SeqRm(cells[s], n_keep, n_keep + n_discard),
                         n_keep + n_discard, n_past, -n_discard)
             ELSE cells[s]]

\* the record of a compute call: the record of a session call, whether
\* check_memory_pressure held, and the cache, the counters and the queue size
\* when the call began
ComputeCall(exec_ctx, result, pressure) ==
  [op |-> "compute", h |-> exec_ctx, result |-> result, engine_ok |-> TRUE,
   sessions |-> sessions, active |-> active_sessions,
   model |-> model, path |-> current_model_path,
   load_ok |-> TRUE, restore_ok |-> TRUE,
   pressure |-> pressure, cells |-> kv_cells, hits |-> cache_hits,
   misses |-> cache_misses, size |-> current_size]

\* ------------------------------------------------- compute and the queue
ModelPaths == {"a.gguf", "b.gguf"}

\* a capacity test that never sends a task to the queue
AtCapacity_Never(active) == FALSE

\* if (chat_ctx->active_sessions >= chat_ctx->max_concurrent)
AtCapacity(active) == active >= max_concurrent

\* compute: auto_optimize_memory, then the session lookup; a session at
\* capacity has its task queued with normal priority, otherwise its
\* last_activity is updated and auto_perform_context_shift_session runs
Compute(exec_ctx) ==
  LET opt == AutoOptimizeMemory(exec_ctx) IN
  /\ UNCHANGED <<max_sessions, idle_timeout_ms, auto_cleanup_enabled,
                 max_concurrent, context_shifting_enabled, n_keep_tokens,
                 n_discard_tokens, n_ctx, parVars, polVars, smplVars,
                 modelVars, now, next_exec_ctx_id, active_sessions>>
  /\ cache_hits' = opt.hits
  /\ cache_misses' = opt.misses
  /\ current_memory_usage' = opt.usage
  /\ IF exec_ctx \notin DOMAIN sessions
     THEN /\ last' = ComputeCall(exec_ctx, "invalid_argument", opt.pressure)
          /\ kv_cells' = opt.cells
          /\ UNCHANGED <<sessions, queueVars>>
     ELSE IF AtCapacity(active_sessions)
     THEN /\ Enqueue(exec_ctx, WASI_NN_PRIORITY_NORMAL,
                         default_task_timeout_ms)
          /\ UNCHANGED shutVars
          /\ last' = ComputeCall(exec_ctx,
                                 IF QueueFull(current_size)
                                 THEN "runtime_error" ELSE "success",
                                 opt.pressure)
          /\ kv_cells' = opt.cells
          /\ UNCHANGED sessions
     ELSE /\ sessions' = [sessions EXCEPT ![exec_ctx] = now]
          /\ last' = ComputeCall(exec_ctx, "success", opt.pressure)
          /\ kv_cells' = ContextShiftCells(opt.cells, exec_ctx)
          /\ UNCHANGED queueVars

\* the session API with compute and two model files, the clock standing still
\* and the task processor not yet scheduled; restore_ok matters only to a load
\* that failed
NextInference ==
  \/ \E engine_ok \in BOOLEAN :
       InitExecutionContext(engine_ok) /\ UNCHANGED <<thrVars, queueVars>>
  \/ \E exec_ctx \in 1..MaxExecCtx :
       CloseExecutionContext(exec_ctx) /\ UNCHANGED <<thrVars, queueVars>>
  \/ \E exec_ctx \in 1..MaxExecCtx :
       RunInference(exec_ctx) /\ UNCHANGED <<thrVars, queueVars>>
  \/ \E exec_ctx \in 1..MaxExecCtx :
       /\ EnqueueBounded(MaxComputeTasks)
       /\ Compute(exec_ctx)
       /\ UNCHANGED thrVars
  \/ \E filename \in ModelPaths, load_ok \in BOOLEAN, restore_ok \in BOOLEAN :
       /\ load_ok => restore_ok
       /\ LoadByNameWithConfig(filename, load_ok, restore_ok)
       /\ UNCHANGED <<thrVars, queueVars>>

InitInference ==
  /\ Init
  /\ auto_cleanup_enabled
  /\ idle_timeout_ms = 1
  /\ max_sessions = MaxSessionsBound

SpecInference == InitInference /\ [][NextInference]_vars

\* ------------------------------------------- shutdown of the task processor
otherVars == <<cfgVars, ctxVars, modelVars, now, thrVars>>

\* a wait predicate that looks at running alone
WaitPredicate_IgnoresTasks == ~running

\* the predicate of queue_condition.wait in dequeue_task
WaitPredicate == ~running \/ QueuedTasks # <<>>

\* a notification that reaches no thread
NotifyOne_Lost(blocked) == FALSE

\* queue_condition.notify_one() wakes the worker if it is blocked in the wait
NotifyOne(blocked) == blocked

\* the task processor thread from while (running) to the test of the wait
\* predicate in dequeue_task, under queue_mutex: with the predicate true the
\* call goes on as DequeueTask, with it false the thread is about to block
W_WaitTest ==
  /\ worker_pc = "dequeue"
  /\ IF WaitPredicate
     THEN DequeueTask /\ UNCHANGED shutVars
     ELSE /\ worker_pc' = "about_to_block"
          /\ last' = QCall("queue_condition.wait", FALSE)
          /\ UNCHANGED <<dequeVars, max_queue_size, default_task_timeout_ms,
                         current_size, running, next_task_id, statVars,
                         worker_task, scenario, shutVars>>

\* queue_condition.wait: the thread releases queue_mutex and sleeps; what was
\* notified before it slept is not kept for it
W_Block ==
  /\ worker_pc = "about_to_block"
  /\ worker_pc' = "blocked"
  /\ wake' = FALSE
  /\ UNCHANGED <<dequeVars, max_queue_size, default_task_timeout_ms,
                 current_size, running, next_task_id, statVars, worker_task,
                 scenario, dtor_pc, last>>

\* the notified thread takes queue_mutex again and tests the predicate anew
W_Wake ==
  /\ worker_pc = "blocked"
  /\ wake
  /\ worker_pc' = "dequeue"
  /\ wake' = FALSE
  /\ UNCHANGED <<dequeVars, max_queue_size, default_task_timeout_ms,
                 current_size, running, next_task_id, statVars, worker_task,
                 scenario, dtor_pc, last>>

\* enqueue_task by a producer, which needs queue_mutex, with its
\* queue_condition.notify_one() after the push
P_Enqueue(priority) ==
  /\ dtor_pc = "idle"
  /\ worker_pc # "about_to_block"
  /\ EnqueueTask(priority, default_task_timeout_ms)
  /\ wake' = IF QueueFull(current_size) THEN wake
             ELSE wake \/ NotifyOne(worker_pc = "blocked")
  /\ UNCHANGED dtor_pc

\* ~LlamaChatContext: task_queue->running = false, without queue_mutex
D_SetRunning ==
  /\ dtor_pc = "idle"
  /\ Shutdown
  /\ dtor_pc' = "notify"
  /\ UNCHANGED wake

\* ~LlamaChatContext: task_queue->queue_condition.notify_all()
D_Notify ==
  /\ dtor_pc = "notify"
  /\ dtor_pc' = "join"
  /\ wake' = (wake \/ worker_pc = "blocked")
  /\ UNCHANGED <<dequeVars, max_queue_size, default_task_timeout_ms,
                 current_size, running, next_task_id, statVars, worker_pc,
                 worker_task, scenario, last>>

\* ~LlamaChatContext: task_processor_thread.join(), after which deinit_backend
\* returns
D_Join ==
  /\ dtor_pc = "join"
  /\ worker_pc = "terminated"
  /\ dtor_pc' = "done"
  /\ UNCHANGED <<dequeVars, max_queue_size, default_task_timeout_ms,
                 current_size, running, next_task_id, statVars, worker_pc,
                 worker_task, scenario, wake, last>>

WorkerStep ==
  \/ W_WaitTest /\ UNCHANGED otherVars
  \/ W_Block /\ UNCHANGED otherVars
  \/ W_Wake /\ UNCHANGED otherVars
  \/ ProcessTask /\ UNCHANGED <<otherVars, shutVars>>

DestructorStep ==
  \/ D_Notify /\ UNCHANGED otherVars
  \/ D_Join /\ UNCHANGED otherVars

NextShutdown ==
  \/ \E priority \in Priorities :
       /\ EnqueueBounded(MaxTasks)
       /\ P_Enqueue(priority)
       /\ UNCHANGED otherVars
  \/ D_SetRunning /\ UNCHANGED otherVars
  \/ WorkerStep
  \/ DestructorStep
  \/ Tick /\ UNCHANGED <<thrVars, queueVars>>

\* both threads, once started, are scheduled
SpecShutdown ==
  /\ InitQueue
  /\ [][NextShutdown]_vars
  /\ WF_vars(WorkerStep)
  /\ WF_vars(DestructorStep)

\* --------------------------- load_by_name_with_config from several threads
SwGoto(t, label) == sw_pc' = [sw_pc EXCEPT ![t] = label]

\* the statements that replace the model: Steps 4 to 9 of safe_model_switch
\* and the load of the initial-loading path
Replacing ==
  {"teardown", "load", "restore", "finish_ok", "finish_err", "first_loading"}

\* bool is_model_switch = (chat_ctx->server_ctx.model != nullptr), read
\* without a lock
L_Begin(t) ==
  /\ sw_pc[t] = "idle"
  /\ SwGoto(t, IF model # NULL THEN "lock" ELSE "first_load")
  /\ sw_waited' = [sw_waited EXCEPT ![t] = FALSE]
  /\ UNCHANGED <<model, params_base_path, current_model_path,
                 model_swap_mutex, model_swapping_in_progress, ctxVars, last>>

\* std::lock_guard lock(model_swap_mutex) finds the mutex taken: the thread
\* blocks
S_Wait(t) ==
  /\ sw_pc[t] = "lock"
  /\ model_swap_mutex # 0
  /\ ~sw_waited[t]
  /\ sw_waited' = [sw_waited EXCEPT ![t] = TRUE]
  /\ UNCHANGED <<model, params_base_path, current_model_path,
                 model_swap_mutex, model_swapping_in_progress, sw_pc, ctxVars,
                 last>>

\* std::lock_guard lock(model_swap_mutex) takes the free mutex
S_Lock(t) ==
  /\ sw_pc[t] = "lock"
  /\ model_swap_mutex = 0
  /\ model_swap_mutex' = t
  /\ SwGoto(t, "test")
  /\ UNCHANGED <<model, params_base_path, current_model_path,
                 model_swapping_in_progress, sw_waited, ctxVars, last>>

\* if (model_swapping_in_progress) return runtime_error; else set it
S_Test(t) ==
  /\ sw_pc[t] = "test"
  /\ IF model_swapping_in_progress
     THEN /\ model_swap_mutex' = 0
          /\ SwGoto(t, "idle")
          /\ last' = Call("load_by_name_with_config", t, "runtime_error")
          /\ UNCHANGED model_swapping_in_progress
     ELSE /\ model_swapping_in_progress' = TRUE
          /\ SwGoto(t, "teardown")
          /\ UNCHANGED <<model_swap_mutex, last>>
  /\ UNCHANGED <<model, params_base_path, current_model_path, sw_waited,
                 ctxVars>>

\* Steps 4 to 6: cleanup_all_slots, server_ctx.model = nullptr,
\* params_base = new_params
S_Teardown(t, filename) ==
  /\ sw_pc[t] = "teardown"
  /\ model' = NULL
  /\ smpl' = <<>>
  /\ params_base_path' = filename
  /\ SwGoto(t, "load")
  /\ UNCHANGED <<current_model_path, model_swap_mutex,
                 model_swapping_in_progress, sw_waited, ctxVars, last>>

\* load_model(new_params)
S_Load(t, load_ok) ==
  /\ sw_pc[t] = "load"
  /\ model' = IF load_ok THEN params_base_path ELSE NULL
  /\ SwGoto(t, IF load_ok THEN "finish_ok" ELSE "restore")
  /\ UNCHANGED <<params_base_path, current_model_path, model_swap_mutex,
                 model_swapping_in_progress, sw_waited, ctxVars, last>>

\* load_model(backup_params)
S_Restore(t, restore_ok) ==
  /\ sw_pc[t] = "restore"
  /\ model' = IF restore_ok THEN current_model_path ELSE NULL
  /\ SwGoto(t, "finish_err")
  /\ UNCHANGED <<params_base_path, current_model_path, model_swap_mutex,
                 model_swapping_in_progress, sw_waited, ctxVars, last>>

\* Steps 8 and 9, model_swapping_in_progress = false, return success
S_FinishOk(t) ==
  /\ sw_pc[t] = "finish_ok"
  /\ current_model_path' = params_base_path
  /\ sessions' = ClearedSessions
  /\ next_exec_ctx_id' = 1
  /\ active_sessions' = 0
  /\ model_swapping_in_progress' = FALSE
  /\ model_swap_mutex' = 0
  /\ SwGoto(t, "idle")
  /\ last' = Call("load_by_name_with_config", t, "success")
  /\ UNCHANGED <<model, params_base_path, sw_waited>>

\* model_swapping_in_progress = false, return runtime_error
S_FinishErr(t) ==
  /\ sw_pc[t] = "finish_err"
  /\ model_swapping_in_progress' = FALSE
  /\ model_swap_mutex' = 0
  /\ SwGoto(t, "idle")
  /\ last' = [Call("load_by_name_with_config", t, "runtime_error")
                EXCEPT !.load_ok = FALSE, !.restore_ok = (model # NULL)]
  /\ UNCHANGED <<model, params_base_path, current_model_path, sw_waited,
                 ctxVars>>

\* the initial-loading path: parse_config_to_params into params_base and the
\* path set, with no lock held
F_Start(t, filename) ==
  /\ sw_pc[t] = "first_load"
  /\ params_base_path' = filename
  /\ SwGoto(t, "first_loading")
  /\ UNCHANGED <<model, current_model_path, model_swap_mutex,
                 model_swapping_in_progress, sw_waited, ctxVars, last>>

\* the initial-loading path: load_model(params_base) and the model
\* information recorded
F_Load(t, load_ok) ==
  /\ sw_pc[t] = "first_loading"
  /\ model' = IF load_ok THEN params_base_path ELSE model
  /\ current_model_path' =
       IF load_ok THEN params_base_path ELSE current_model_path
  /\ SwGoto(t, "idle")
  /\ last' = [Call("load_by_name_with_config", t,
                    IF load_ok THEN "success" ELSE "runtime_error")
                EXCEPT !.load_ok = load_ok]
  /\ UNCHANGED <<params_base_path, model_swap_mutex,
                 model_swapping_in_progress, sw_waited, ctxVars>>

\* run_inference: if (!chat_ctx || !chat_ctx->server_ctx.ctx) return
\* invalid_argument, tested with no lock and without a look at
\* model_swapping_in_progress; past the test the call works on server_ctx
R_Begin(t) ==
  /\ sw_pc[t] = "idle"
  /\ IF model = NULL
     THEN /\ last' = Call("run_inference", t, "invalid_argument")
          /\ UNCHANGED sw_pc
     ELSE /\ SwGoto(t, "infer")
          /\ UNCHANGED last
  /\ UNCHANGED <<model, params_base_path, current_model_path,
                 model_swap_mutex, model_swapping_in_progress, sw_waited,
                 ctxVars>>

\* run_inference: the tokens are generated and the call returns
R_End(t) ==
  /\ sw_pc[t] = "infer"
  /\ SwGoto(t, "idle")
  /\ last' = Call("run_inference", t, "success")
  /\ UNCHANGED <<model, params_base_path, current_model_path,
                 model_swap_mutex, model_swapping_in_progress, sw_waited,
                 ctxVars>>

\* a model is loaded, no session is open and no caller is in a call
InitSwitch ==
  /\ InitThreads
  /\ auto_cleanup_enabled
  /\ max_sessions = 1
  /\ max_concurrent = 1

NextSwitch ==
  \E t \in Threads :
    \/ L_Begin(t) /\ UNCHANGED <<cfgVars, now, thrVars, queueVars>>
    \/ S_Wait(t) /\ UNCHANGED <<cfgVars, now, thrVars, queueVars>>
    \/ S_Lock(t) /\ UNCHANGED <<cfgVars, now, thrVars, queueVars>>
    \/ S_Test(t) /\ UNCHANGED <<cfgVars, now, thrVars, queueVars>>
    \/ \E filename \in ModelPaths :
         S_Teardown(t, filename)
         /\ UNCHANGED <<confVars, now, thrVars, queueVars>>
    \/ \E load_ok \in BOOLEAN :
         S_Load(t, load_ok) /\ UNCHANGED <<cfgVars, now, thrVars, queueVars>>
    \/ \E restore_ok \in BOOLEAN :
         S_Restore(t, restore_ok)
         /\ UNCHANGED <<cfgVars, now, thrVars, queueVars>>
    \/ S_FinishOk(t) /\ UNCHANGED <<cfgVars, now, thrVars, queueVars>>
    \/ S_FinishErr(t) /\ UNCHANGED <<cfgVars, now, thrVars, queueVars>>
    \/ \E filename \in ModelPaths :
         F_Start(t, filename)
         /\ UNCHANGED <<cfgVars, now, thrVars, queueVars>>
    \/ \E load_ok \in BOOLEAN :
         F_Load(t, load_ok) /\ UNCHANGED <<cfgVars, now, thrVars, queueVars>>
    \/ R_Begin(t) /\ UNCHANGED <<cfgVars, now, thrVars, queueVars>>
    \/ R_End(t) /\ UNCHANGED <<cfgVars, now, thrVars, queueVars>>

SpecSwitch == InitSwitch /\ [][NextSwitch]_vars

\* =================================================================== claims
Stored(S) == Cardinality(DOMAIN S)

IsInit == last.op = "init_execution_context"
IsClose == last.op = "close_execution_context"

\* ------------------------------------------------------------------- C1
\* C1: after any sequence of init_execution_context and
\* close_execution_context calls the number of active sessions (the counter
\* and the sessions stored) never exceeds max_concurrent; a creation attempted
\* while max_concurrent sessions are active fails and adds no session.
C1_ActiveNeverExceedsMaxConcurrent ==
  /\ active_sessions <= max_concurrent
  /\ Stored(sessions) <= max_concurrent
  /\ (IsInit /\ last.active >= max_concurrent) =>
       /\ last.result # "success"
       /\ sessions = last.sessions
       /\ active_sessions = last.active

\* a creation was refused with max_concurrent sessions open
C1_Witness ==
  /\ IsInit
  /\ model # NULL
  /\ max_concurrent >= 2
  /\ last.active = max_concurrent
  /\ Stored(last.sessions) = max_concurrent
  /\ last.result = "runtime_error"

\* ------------------------------------------------------------------- C2
\* C2: when init_execution_context and close_execution_context are called
\* concurrently from several threads, every interleaving keeps the
\* active-session count at or below max_concurrent.
C2_ConcurrentCallsKeepLimit ==
  /\ active_sessions <= max_concurrent
  /\ Stored(sessions) <= max_concurrent

\* ------------------------------------------------------------------- C3
\* C3: with a model loaded (and the engine working), init_execution_context
\* succeeds whenever fewer than max_concurrent sessions are currently open.
C3_CreationSucceedsBelowLimit ==
  (IsInit /\ model # NULL /\ last.engine_ok
     /\ Stored(last.sessions) < max_concurrent)
  => last.result = "success"

\* ------------------------------------------------------------------- C4
\* C4: after any sequence of operations, with auto_cleanup enabled or
\* disabled, the number of sessions in the store never exceeds max_sessions.
C4_StoreNeverExceedsMaxSessions == Stored(sessions) <= max_sessions

\* ------------------------------------------------------------------- C5
\* C5: with auto_cleanup disabled, init_execution_context evicts no session,
\* and a creation attempted while the store already holds max_sessions
\* sessions is rejected and adds no session.
C5_DisabledCleanupRejectsAtCapacity ==
  (IsInit /\ ~auto_cleanup_enabled) =>
    /\ \A h \in DOMAIN last.sessions :
         h \in DOMAIN sessions /\ sessions[h] = last.sessions[h]
    /\ Stored(last.sessions) >= max_sessions =>
         (last.result # "success" /\ sessions = last.sessions)

\* ------------------------------------------------------------------- C6
\* C6: every session whose last_activity is older than idle_timeout_ms is
\* removed by the next init_execution_context call (auto_cleanup enabled, a
\* model loaded), whatever the current session count.
C6_IdleSessionsRemovedByNextCreate ==
  (IsInit /\ auto_cleanup_enabled /\ model # NULL) =>
    \A h \in DOMAIN sessions : ~IsIdle(sessions[h], now)

\* ------------------------------------------------------------------- C7
\* C7: with auto_cleanup enabled, no session idle-expired and exactly
\* max_sessions = k sessions stored, the next successful
\* init_execution_context removes exactly one session, one with the oldest
\* last_activity, and keeps the other k-1 as they were.
C7_Case ==
  /\ IsInit
  /\ last.result = "success"
  /\ auto_cleanup_enabled
  /\ Stored(last.sessions) = max_sessions
  /\ \A h \in DOMAIN last.sessions : ~IsIdle(last.sessions[h], now)

C7_LruEvictsExactlyOldest ==
  C7_Case =>
    \E v \in DOMAIN last.sessions :
      /\ \A o \in DOMAIN last.sessions : last.sessions[v] <= last.sessions[o]
      /\ DOMAIN sessions = (DOMAIN last.sessions \ {v}) \cup {last.h}
      /\ last.h \notin DOMAIN last.sessions
      /\ \A o \in DOMAIN last.sessions \ {v} : sessions[o] = last.sessions[o]

\* k = 2 sessions with distinct timestamps were stored and the older one went
C7_Witness ==
  /\ C7_Case
  /\ max_sessions >= 2
  /\ \E v, o \in DOMAIN last.sessions :
       /\ last.sessions[v] < last.sessions[o]
       /\ v \notin DOMAIN sessions
       /\ o \in DOMAIN sessions

\* ------------------------------------------------------------------- C8
\* C8 as stated: close_execution_context on an open session removes it and
\* lowers the active count by exactly one; a second close of the same handle
\* returns not_found and changes neither the session store nor the count.
C8_SecondCloseReturnsNotFound ==
  IsClose =>
    IF last.h \in DOMAIN last.sessions
    THEN /\ last.result = "success"
         /\ sessions = Restrict(last.sessions, DOMAIN last.sessions \ {last.h})
         /\ active_sessions = last.active - 1
    ELSE /\ last.result = "not_found"
         /\ sessions = last.sessions
         /\ active_sessions = last.active

\* C8 as amended: close_execution_context on an open session removes it and
\* lowers the active count by exactly one; a close of a handle that is not in
\* the store, such as a second close of the same handle, returns
\* invalid_argument and changes neither the session store nor the count.
C8_CloseRemovesAndSecondCloseIsNoOp ==
  IsClose =>
    IF last.h \in DOMAIN last.sessions
    THEN /\ last.result = "success"
         /\ sessions = Restrict(last.sessions, DOMAIN last.sessions \ {last.h})
         /\ active_sessions = last.active - 1
    ELSE /\ last.result = "invalid_argument"
         /\ sessions = last.sessions
         /\ active_sessions = last.active

\* a handle that was issued and, nothing being evicted, was closed before is
\* closed again while another session is open
C8_Witness ==
  /\ IsClose
  /\ ~auto_cleanup_enabled
  /\ last.h < next_exec_ctx_id
  /\ last.h \notin DOMAIN last.sessions
  /\ last.result = "invalid_argument"
  /\ Stored(sessions) >= 1
  /\ active_sessions >= 1

\* ------------------------------------------------------------------- C9
\* C9: under any interleaving of producers and the consumer the three queue
\* tiers together never hold more than queue_size tasks: an enqueue on a full
\* queue returns false, increments the rejected counter and adds no task.
C9_QueueNeverExceedsQueueSize ==
  /\ [](Len(QueuedTasks) <= max_queue_size)
  /\ [][\A priority \in Priorities :
          (/\ Len(QueuedTasks) >= max_queue_size
           /\ EnqueueTask(priority, default_task_timeout_ms))
          => /\ last'.result = FALSE
             /\ tasks_rejected' = tasks_rejected + 1
             /\ UNCHANGED <<dequeVars, current_size, tasks_queued>>]_vars

\* a queue of two or more tasks is full, the consumer holds a task, and an
\* enqueue has just been refused
C9_Witness ==
  /\ last = QCall("enqueue_task", FALSE)
  /\ max_queue_size >= 2
  /\ Len(QueuedTasks) = max_queue_size
  /\ worker_pc = "process"
  /\ tasks_rejected >= 1

\* ------------------------------------------------------------------- C10
\* the tiers in the order dequeue_task serves them
TierRank(priority) ==
  IF TierOf(priority) = "high" THEN 2
  ELSE IF TierOf(priority) = "normal" THEN 1
  ELSE 0

ScenarioDelivered ==
  <<WASI_NN_PRIORITY_URGENT, WASI_NN_PRIORITY_URGENT,
    WASI_NN_PRIORITY_NORMAL, WASI_NN_PRIORITY_LOW>>

\* C10: dequeue never returns a task from a lower tier while an unexpired
\* task waits in a higher tier (urgent, then high/normal, then low): the
\* tasks it leaves waiting are of the delivered task's tier or a lower one,
\* and tasks enqueued as [low, urgent, normal, urgent] and then all delivered
\* are delivered as [urgent, urgent, normal, low].
C10_DequeueServesHighestTierFirst ==
  /\ (last.op = "dequeue_task" /\ last.result) =>
       \A i \in 1..Len(QueuedTasks) :
         /\ ~Expired(QueuedTasks[i], now)
         /\ TierRank(QueuedTasks[i].priority) <= TierRank(worker_task.priority)
  /\ (scenario.on /\ Len(scenario.deq) = Len(ScenarioEnqueued)) =>
       scenario.deq = ScenarioDelivered

\* [low, urgent, normal, urgent] were enqueued and all four delivered
C10_Witness ==
  /\ scenario.on
  /\ scenario.enq = ScenarioEnqueued
  /\ Len(scenario.deq) = Len(ScenarioEnqueued)
  /\ last = QCall("process_task", TRUE)

\* ------------------------------------------------------------------- C11
\* the ids of the tasks of a deque
TaskIds(queue) == {queue[i].id : i \in 1..Len(queue)}

\* the ids of the queued tasks whose timeout_at has passed
ExpiredIds ==
  {QueuedTasks[i].id :
     i \in {j \in 1..Len(QueuedTasks) : Expired(QueuedTasks[j], now)}}

\* what a call of dequeue_task that purges does with the expired tasks
PurgesExpired ==
  /\ tasks_timeout' = tasks_timeout + Cardinality(ExpiredIds)
  /\ TaskIds(QueuedTasks') \cap ExpiredIds = {}
  /\ worker_task'.id \notin ExpiredIds
  /\ last'.result => ~Expired(worker_task', now)

\* C11 as stated: a task whose timeout_at has passed when a dequeue runs is
\* removed by that dequeue's purge step, counted once in the timeout counter,
\* and never returned by any dequeue.
C11_EveryDequeuePurgesExpired == [][DequeueTask => PurgesExpired]_vars

\* C11 as amended: a task whose timeout_at has passed when a dequeue runs on
\* a running queue is removed by that dequeue's purge step, counted once in the
\* timeout counter, and never returned by any dequeue; a dequeue after shutdown
\* returns false and leaves the queue as it is.
C11_RunningDequeuePurgesExpired ==
  [][DequeueTask =>
       IF running
       THEN PurgesExpired
       ELSE /\ last'.result = FALSE
            /\ UNCHANGED <<dequeVars, current_size, tasks_timeout>>]_vars

\* a dequeue erased an expired task and delivered an unexpired one
C11_Witness ==
  /\ last.op = "dequeue_task"
  /\ last.result
  /\ last.purged >= 1
  /\ tasks_timeout >= 1
  /\ worker_pc = "process"
  /\ ~Expired(worker_task, now)

\* ------------------------------------------------------------------- C12
IsCompute == last.op = "compute"
IsLoad == last.op = "load_by_name_with_config"

\* init_execution_context at the limit fails
InitFailsAtLimit ==
  (IsInit /\ last.model # NULL /\ last.active >= max_concurrent)
  => last.result # "success"

\* C12 as stated: compute on an existing session while the active count is at
\* max_concurrent enqueues a task and returns success instead of failing,
\* whereas init_execution_context at the same limit fails.
C12_ComputeAtLimitQueues ==
  /\ []InitFailsAtLimit
  /\ [][\A exec_ctx \in DOMAIN sessions :
          (active_sessions >= max_concurrent /\ Compute(exec_ctx))
          => /\ last'.result = "success"
             /\ Len(QueuedTasks') = Len(QueuedTasks) + 1]_vars

\* C12 as amended: compute on an existing session while the active count is
\* at max_concurrent enqueues a task and returns success when the task queue
\* has room, and returns runtime_error, the task rejected, when the queue is
\* full; init_execution_context at the same limit fails.
C12_ComputeAtLimitQueuesIfRoom ==
  /\ []InitFailsAtLimit
  /\ [][\A exec_ctx \in DOMAIN sessions :
          (active_sessions >= max_concurrent /\ Compute(exec_ctx))
          => IF Len(QueuedTasks) < max_queue_size
             THEN /\ last'.result = "success"
                  /\ Len(QueuedTasks') = Len(QueuedTasks) + 1
                  /\ normal_priority_queue' # normal_priority_queue
             ELSE /\ last'.result = "runtime_error"
                  /\ tasks_rejected' = tasks_rejected + 1
                  /\ QueuedTasks' = QueuedTasks]_vars

\* two sessions are open with max_concurrent = 2 and a compute was queued
C12_Witness ==
  /\ IsCompute
  /\ last.result = "success"
  /\ max_concurrent >= 2
  /\ last.active = max_concurrent
  /\ last.h \in DOMAIN last.sessions
  /\ Len(normal_priority_queue) >= 1

\* ------------------------------------------------------------------- C16
\* the call was a switch (a model was loaded when it began) whose
\* load_model(new_params) failed
IsFailedSwitch == IsLoad /\ last.model # NULL /\ ~last.load_ok

\* C16: if loading the new model fails and reloading the backup succeeds,
\* safe_model_switch returns runtime_error and the recorded model state (the
\* path and what is recorded with it) equals the state before the switch, a
\* model being loaded.
C16_FailedSwitchRestoresRecordedState ==
  (IsFailedSwitch /\ last.restore_ok) =>
    /\ last.result = "runtime_error"
    /\ current_model_path = last.path
    /\ model # NULL

\* a switch to another file than the recorded one failed and was restored
C16_Witness ==
  /\ IsFailedSwitch
  /\ last.restore_ok
  /\ params_base_path # last.path
  /\ current_model_path = last.path
  /\ Stored(sessions) >= 1

\* ------------------------------------------------------------------- C17
\* C17: if both the new-model load and the backup reload fail,
\* safe_model_switch returns a code (Unstable) the caller can tell apart from
\* the runtime_error returned when the restore succeeded.
C17_DoubleFailureReturnsUnstable ==
  (IsFailedSwitch /\ ~last.restore_ok) =>
    last.result \notin {"success", "runtime_error"}

\* ------------------------------------------------------------------- C18
\* no model is loaded although one was recorded: the state a switch leaves
\* whose load and restore both failed, until a load succeeds
WasUnstable == last.model = NULL /\ last.path # ""

\* C18: after a switch in which both the new-model load and the backup reload
\* failed, no init_execution_context, run_inference or compute call succeeds
\* until a later load_by_name_with_config succeeds.
C18_NoCallSucceedsWhileUnstable ==
  (WasUnstable /\ last.op \in {"init_execution_context", "run_inference",
                                "compute"})
  => last.result # "success"

\* ------------------------------------------------------------------- C19
\* C19: after a successful model switch the session store is empty, the
\* active-session count is zero and the session-id counter is reset, so that
\* a creation on the new model succeeds (the engine working) and a compute on
\* the new context, below capacity, succeeds.
C19_SwitchClearsSessions ==
  /\ (IsLoad /\ last.model # NULL /\ last.result = "success") =>
       /\ sessions = <<>>
       /\ active_sessions = 0
       /\ next_exec_ctx_id = 1
       /\ model # NULL
  /\ (IsInit /\ last.model # NULL /\ last.engine_ok
        /\ last.sessions = <<>> /\ last.active = 0) =>
       /\ last.result = "success"
       /\ DOMAIN sessions = {last.h}
       /\ active_sessions = 1
  /\ (IsCompute /\ last.h \in DOMAIN last.sessions
        /\ ~AtCapacity(last.active)) =>
       /\ last.result = "success"
       /\ sessions = [last.sessions EXCEPT ![last.h] = now]

\* a switch to the other file succeeded while sessions were open
C19_Witness ==
  /\ IsLoad
  /\ last.result = "success"
  /\ last.model # NULL
  /\ last.path # current_model_path
  /\ Stored(last.sessions) >= 2
  /\ last.active >= 2
  /\ sessions = <<>>

\* ------------------------------------------------------------------- C20
\* C20: run_inference on a handle that is not in the session store (never
\* issued, closed, or evicted) returns a non-success error code and changes
\* no session.
C20_RunInferenceUnknownHandleFails ==
  (last.op = "run_inference" /\ last.h \notin DOMAIN last.sessions) =>
    /\ last.result # "success"
    /\ sessions = last.sessions

\* ------------------------------------------------------------------- C13
\* C13: after shutdown has set running = false and broadcast the wake
\* condition, every dequeue that is blocked or about to block returns the
\* termination signal instead of a task, so that the worker thread exits and
\* deinit_backend returns.
C13_ShutdownTerminatesWorker ==
  /\ [](dtor_pc # "idle" /\ last.op = "dequeue_task" => ~last.result)
  /\ (dtor_pc = "join") ~> (worker_pc = "terminated" /\ dtor_pc = "done")

\* ------------------------------------------------------------------- C14
\* C14: at most one model switch is in the Switching state at any time: two
\* concurrent load_by_name_with_config calls on a backend with a loaded model
\* never both execute the teardown-and-load steps at once.
C14_OneSwitchAtATime ==
  \A t1, t2 \in Threads :
    (sw_pc[t1] \in Replacing /\ sw_pc[t2] \in Replacing) => t1 = t2

\* ------------------------------------------------------------------- C15
\* C15: a switch attempted while another switch is in progress returns
\* (AlreadyInProgress) immediately, without waiting for the running switch to
\* finish and without performing a switch of its own.
C15_SecondSwitchReturnsAtOnce ==
  \A t \in Threads :
    /\ ~(sw_pc[t] = "lock" /\ sw_waited[t])
    /\ sw_waited[t] => sw_pc[t] \notin Replacing

\* ------------------------------------------------ runtime configuration
\* wasi_nn_runtime_params::temperature when the runtime configuration does not
\* name it
TemperatureUnset == -1

\* apply_runtime_params_to_sampling: a named temperature replaces slots[0].smpl
\* by a sampler built from params_base.sampling with that temperature, and
\* nothing puts the former sampler back
SamplerAfterCall(temperature) ==
  IF smpl # <<>> /\ temperature >= 0 THEN <<temperature>> ELSE smpl

\* run_inference with a runtime configuration that parses
RunInferenceWithConfig(exec_ctx, temperature) ==
  /\ UNCHANGED <<confVars, modelVars, now, next_exec_ctx_id, active_sessions>>
  /\ IF model = NULL
     THEN /\ last' = Call("run_inference(runtime_config)", exec_ctx,
                          "invalid_argument")
          /\ UNCHANGED <<sessions, smplVars>>
     ELSE IF exec_ctx \notin DOMAIN sessions
     THEN /\ last' = Call("run_inference(runtime_config)", exec_ctx, "success")
          /\ UNCHANGED <<sessions, smplVars>>
     ELSE /\ sessions' = [sessions EXCEPT ![exec_ctx] = now]
          /\ smpl' = SamplerAfterCall(temperature)
          /\ last' = Call("run_inference(runtime_config)", exec_ctx, "success")

\* a model is loaded and no session is open yet
InitSampling ==
  /\ InitThreads
  /\ ~auto_cleanup_enabled
  /\ max_sessions = MaxSessionsBound
  /\ max_concurrent = MaxConcurrentBound
  /\ idle_timeout_ms = MaxIdleTimeout

\* one caller opening and closing sessions and running inference with and
\* without a runtime configuration
NextSampling ==
  \/ \E engine_ok \in BOOLEAN :
       InitExecutionContext(engine_ok) /\ UNCHANGED <<thrVars, queueVars>>
  \/ \E exec_ctx \in 1..MaxExecCtx :
       CloseExecutionContext(exec_ctx) /\ UNCHANGED <<thrVars, queueVars>>
  \/ \E exec_ctx \in 1..MaxExecCtx :
       RunInference(exec_ctx) /\ UNCHANGED <<thrVars, queueVars>>
  \/ \E exec_ctx \in 1..MaxExecCtx,
        temperature \in {TemperatureUnset} \cup RuntimeTemperatures :
       /\ RunInferenceWithConfig(exec_ctx, temperature)
       /\ UNCHANGED <<thrVars, queueVars>>
  \/ Tick /\ UNCHANGED <<thrVars, queueVars>>

SpecSampling == InitSampling /\ [][NextSampling]_vars

\* C21: a run_inference call that names no runtime configuration, on a session
\* whose sampler exists, samples with the base temperature, whatever earlier
\* calls were given.
C21_PlainRunUsesBaseConfiguration ==
  (last.op = "run_inference" /\ last.h \in DOMAIN last.sessions
     /\ smpl # <<>>)
    => smpl = <<BaseTemperature>>

\* ------------------------------------------------ perform_context_shift
\* perform_context_shift
PerformContextShift(session_id) ==
  LET n_past == NPastEstimate(n_ctx)
      n_keep == n_keep_tokens
      n_left == n_past - n_keep
      n_discard == NDiscard(n_left)
  IN /\ UNCHANGED <<context_shifting_enabled, n_keep_tokens, n_discard_tokens,
                    n_ctx>>
     /\ IF ~context_shifting_enabled \/ model = NULL
        THEN /\ last' = MCall("perform_context_shift", session_id,
                              "runtime_error")
             /\ UNCHANGED kv_cells
        ELSE IF NothingToShift(n_left)
        THEN /\ last' = MCall("perform_context_shift", session_id, "success")
             /\ UNCHANGED kv_cells
        ELSE /\ kv_cells' =
                  [kv_cells EXCEPT ![session_id] =
                     SeqAdd(SeqRm(@, n_keep, n_keep + n_discard),
                            n_keep + n_discard, n_past, -n_discard)]
             /\ last' = MCall("perform_context_shift", session_id, "success")

\* a backend with or without a loaded model, any memory policy within the
\* bounds, and every sequence filled with the same number of tokens
InitMemory ==
  /\ max_sessions = 1
  /\ max_concurrent = 1
  /\ idle_timeout_ms = 1
  /\ auto_cleanup_enabled = TRUE
  /\ sessions = <<>>
  /\ next_exec_ctx_id = 1
  /\ active_sessions = 0
  /\ model \in ModelFiles \cup {NULL}
  /\ params_base_path = (IF model = NULL THEN "" ELSE model)
  /\ current_model_path = params_base_path
  /\ SwapIdle
  /\ SamplerUnset
  /\ context_shifting_enabled \in BOOLEAN
  /\ n_ctx \in 1..MaxCtx
  /\ n_keep_tokens \in 0..MaxKeep
  /\ n_discard_tokens \in 0..MaxDiscard
  /\ \E used \in 0..n_ctx : kv_cells = [s \in SeqIds |-> FilledCells(used)]
  /\ ParamsUntracked
  /\ PolicyUntracked
  /\ now = 0
  /\ last = MCall("init_backend", 0, "success")
  /\ pc = [t \in Threads |-> "idle"]
  /\ t_id = [t \in Threads |-> 0]
  /\ t_cnt = [t \in Threads |-> 0]
  /\ QueueConstructed
  /\ max_queue_size = 1
  /\ default_task_timeout_ms = DefaultTaskTimeout

NextMemory ==
  \E session_id \in SeqIds :
    /\ PerformContextShift(session_id)
    /\ UNCHANGED <<max_sessions, idle_timeout_ms, auto_cleanup_enabled,
                   max_concurrent, parVars, polVars, optVars, smplVars,
                   ctxVars, modelVars, now, thrVars, queueVars>>

SpecMemory == InitMemory /\ [][NextMemory]_vars

IsShift == last.op = "perform_context_shift"

C23_NoInferenceDuringSwitch ==
  \A t1, t2 \in Threads :
    sw_pc[t1] \in {"load", "restore"} => sw_pc[t2] # "infer"

\* ------------------------------------------------------------------- C24
\* the statements inside server_ctx.load_model
InLoadModel == {"load", "restore", "first_loading"}

\* C24: no two threads are inside load_model at the same time, whether they
\* came by the initial-loading path or by safe_model_switch.
C24_LoadsSerialised ==
  \A t1, t2 \in Threads :
    (sw_pc[t1] \in InLoadModel /\ sw_pc[t2] \in InLoadModel) => t1 = t2

\* ------------------------------------------------------------------- C25
\* C25: after any sequence of creations, closes, evictions and model switches
\* the active_sessions counter equals the number of sessions in the store.
C25_ActiveCountsStoredSessions ==
  active_sessions = Cardinality(DOMAIN sessions)

\* ------------------------------------------------------------------- C26
\* a uint32_t value as its high and low 16 bits
UInt32(x) == <<(x \div 65536) % 65536, x % 65536>>

\* get_queue_status: active = tasks_queued - tasks_completed - tasks_timeout
\* - tasks_rejected, all uint32_t
QueueStatusActive ==
  UInt32(tasks_queued - tasks_completed - tasks_timeout - tasks_rejected)

\* C26: the active count that get_queue_status reports is a valid count: it is
\* a number between 0 and the number of tasks accepted, not a difference that
\* went below zero and wrapped around.
C26_ActiveCountIsValid ==
  \E n \in 0..tasks_queued : QueueStatusActive = <<0, n>>

\* ----------------------------------------------------- the drain step
\* wait_for_tasks_completion(chat_ctx, 30000): the timeout in ticks of the
\* model's clock
DrainTimeout == 1

\* wait_for_tasks_completion, one turn of its loop. start_time is the time 0
\* at which the specification begins.
Dr_Poll(t) ==
  /\ sw_pc[t] = "drain"
  /\ IF QueueStatusActive = <<0, 0>> /\ current_size = 0
     THEN /\ SwGoto(t, "teardown")
          /\ last' = QCall("wait_for_tasks_completion", TRUE)
     ELSE IF now - 0 > DrainTimeout
     THEN /\ SwGoto(t, "teardown")
          /\ last' = QCall("wait_for_tasks_completion", FALSE)
     ELSE /\ last' = QCall("sleep_for", TRUE)
          /\ UNCHANGED sw_pc
  /\ UNCHANGED <<model, params_base_path, current_model_path,
                 model_swap_mutex, model_swapping_in_progress, sw_waited>>

\* thread 1 has entered safe_model_switch on a loaded model and set
\* model_swapping_in_progress; it is about to call wait_for_tasks_completion
InitDrain ==
  /\ max_sessions = 1
  /\ max_concurrent = 1
  /\ idle_timeout_ms = 1
  /\ auto_cleanup_enabled = TRUE
  /\ sessions = <<>>
  /\ next_exec_ctx_id = 1
  /\ active_sessions = 0
  /\ model \in ModelFiles
  /\ params_base_path = model
  /\ current_model_path = model
  /\ model_swap_mutex = 1
  /\ model_swapping_in_progress = TRUE
  /\ sw_pc = [t \in Threads |-> IF t = 1 THEN "drain" ELSE "idle"]
  /\ sw_waited = [t \in Threads |-> FALSE]
  /\ SamplerUnset
  /\ MemoryUntracked
  /\ ParamsUntracked
  /\ PolicyUntracked
  /\ now = 0
  /\ last = QCall("safe_model_switch", TRUE)
  /\ pc = [t \in Threads |-> "idle"]
  /\ t_id = [t \in Threads |-> 0]
  /\ t_cnt = [t \in Threads |-> 0]
  /\ QueueConstructed
  /\ max_queue_size \in 1..MaxQueueSizeBound
  /\ default_task_timeout_ms = DefaultTaskTimeout

\* the drain step against producers, the task processor thread and the clock
NextDrain ==
  \/ \E priority \in Priorities :
       /\ EnqueueBounded(MaxTasks)
       /\ EnqueueTask(priority, default_task_timeout_ms)
       /\ UNCHANGED <<cfgVars, ctxVars, modelVars, now, thrVars, shutVars>>
  \/ DequeueTask
     /\ UNCHANGED <<cfgVars, ctxVars, modelVars, now, thrVars, shutVars>>
  \/ ProcessTask
     /\ UNCHANGED <<cfgVars, ctxVars, modelVars, now, thrVars, shutVars>>
  \/ Tick /\ UNCHANGED <<thrVars, queueVars>>
  \/ Dr_Poll(1) /\ UNCHANGED <<cfgVars, ctxVars, now, thrVars, queueVars>>

SpecDrain == InitDrain /\ [][NextDrain]_vars

\* C27: the drain step goes on sleeping only while a task is queued or in
\* flight, and when it ends before its timeout no task is queued or in flight.
C27_DrainEndsWhenIdle ==
  /\ last.op = "sleep_for"
       => (QueuedTasks # <<>> \/ worker_task # NoTask)
  /\ (last.op = "wait_for_tasks_completion" /\ last.result)
       => (QueuedTasks = <<>> /\ worker_task = NoTask)

\* ------------------------------------------- the running task processor
\* the backend running with a queue of two places: producers of urgent and low
\* tasks that call enqueue_task while the queue has room, until MaxLiveTasks
\* tasks were accepted, the task processor thread and the clock
InitWorker ==
  /\ InitBackend
  /\ max_queue_size = 2

NextWorker ==
  \/ \E priority \in {WASI_NN_PRIORITY_LOW, WASI_NN_PRIORITY_URGENT} :
       /\ ~QueueFull(current_size)
       /\ next_task_id <= MaxLiveTasks
       /\ P_Enqueue(priority)
       /\ UNCHANGED otherVars
  \/ WorkerStep
  \/ Tick /\ UNCHANGED <<thrVars, queueVars>>

\* the task processor thread is scheduled
SpecWorker ==
  /\ InitWorker
  /\ [][NextWorker]_vars
  /\ WF_vars(WorkerStep)

\* ------------------------------------------------------------------- C28
\* the task is in one of the three deques
InQueue(id) == \E i \in 1..Len(QueuedTasks) : QueuedTasks[i].id = id

\* the task has left the queue and the task processor thread is through
\* with it
Settled(id) == ~InQueue(id) /\ worker_task.id # id

\* every accepted task is queued, held by the task processor thread, counted
\* as completed or counted as timed out
AcceptedTasksAccounted ==
  tasks_queued = tasks_completed + tasks_timeout + Len(QueuedTasks)
                   + (IF worker_task = NoTask THEN 0 ELSE 1)

\* C28: while the backend runs, every accepted task is accounted for at all
\* times, and a task in the queue is eventually dequeued and completed or
\* purged as timed out.
C28_AcceptedTasksLeaveTheQueue ==
  /\ []AcceptedTasksAccounted
  /\ \A id \in 1..MaxLiveTasks : InQueue(id) ~> Settled(id)

\* while the backend runs, one task has been completed, another has been
\* purged, and none is left
C28_Witness ==
  /\ running
  /\ tasks_completed >= 1
  /\ tasks_timeout >= 1
  /\ QueuedTasks = <<>>
  /\ worker_task = NoTask

\* ------------------------------------------------------------------- C29
\* C29 as stated: dequeue_task returns without a task only after shutdown was
\* signalled, and it blocks only while the queue runs and holds nothing.
C29_DequeueFailsOnlyAtShutdown ==
  /\ (last.op = "dequeue_task" /\ ~last.result) => ~running
  /\ last.op = "queue_condition.wait" => (running /\ QueuedTasks = <<>>)

\* C29, amended: dequeue_task returns without a task after shutdown was
\* signalled, or when every task it found queued had expired and was purged;
\* it blocks only while the queue runs and holds nothing.
C29_DequeueFailsAtShutdownOrAllExpired ==
  /\ (last.op = "dequeue_task" /\ ~last.result)
       => (~running \/ (last.purged > 0 /\ QueuedTasks = <<>>))
  /\ last.op = "queue_condition.wait" => (running /\ QueuedTasks = <<>>)

\* the running queue held expired tasks only, and dequeue_task came back
\* without a task
C29_Witness ==
  /\ last.op = "dequeue_task"
  /\ ~last.result
  /\ running
  /\ last.purged > 0

\* ------------------------------------------------ queued tasks of a session
\* a model is loaded, sessions are only removed by close_execution_context,
\* and one session saturates the concurrency limit, so that compute queues
InitCancel ==
  /\ InitThreads
  /\ ~auto_cleanup_enabled
  /\ max_sessions = MaxSessionsBound
  /\ max_concurrent = 1
  /\ idle_timeout_ms = MaxIdleTimeout

\* one caller of the session API and the task processor thread
NextCancel ==
  \/ InitExecutionContext(TRUE) /\ UNCHANGED <<thrVars, queueVars>>
  \/ \E exec_ctx \in 1..MaxExecCtx :
       CloseExecutionContext(exec_ctx) /\ UNCHANGED <<thrVars, queueVars>>
  \/ \E exec_ctx \in 1..MaxExecCtx :
       /\ EnqueueBounded(MaxComputeTasks)
       /\ Compute(exec_ctx)
       /\ UNCHANGED thrVars
  \/ DequeueTask
     /\ UNCHANGED <<cfgVars, ctxVars, modelVars, now, thrVars, shutVars>>
  \/ ProcessTask
     /\ UNCHANGED <<cfgVars, ctxVars, modelVars, now, thrVars, shutVars>>
  \/ Tick /\ UNCHANGED <<thrVars, queueVars>>

SpecCancel == InitCancel /\ [][NextCancel]_vars

\* ------------------------------------------------------------------- C30
\* C30: a task that dequeue_task hands to the task processor thread belongs to
\* a session that has not been closed: its session is still in the store when
\* the task is dequeued.
C30_NoTaskOfClosedSessionIsDequeued ==
  (last.op = "dequeue_task" /\ last.result)
    => worker_task.exec_ctx \in DOMAIN sessions

\* ---------------------------------------------------- order within a tier
\* the tiers as the documentation names them: URGENT alone, HIGH together
\* with NORMAL, LOW alone
SameTier(p, q) ==
  \/ p = q
  \/ {p, q} = {WASI_NN_PRIORITY_HIGH, WASI_NN_PRIORITY_NORMAL}

\* C31: two tasks of the same tier are delivered in the order they were
\* enqueued, HIGH and NORMAL being one tier: when dequeue_task delivers a
\* task, no task enqueued before it (a smaller id, ids being given in enqueue
\* order under queue_mutex) in the same tier is still waiting in any deque
C31_SameTierDeliveredInEnqueueOrder ==
  (last.op = "dequeue_task" /\ last.result) =>
    \A i \in 1..Len(QueuedTasks) :
      SameTier(QueuedTasks[i].priority, worker_task.priority) =>
        QueuedTasks[i].id > worker_task.id

\* a NORMAL task is delivered while a HIGH task enqueued after it waits
C31_Witness ==
  /\ last.op = "dequeue_task" /\ last.result
  /\ worker_task.priority = WASI_NN_PRIORITY_NORMAL
  /\ \E i \in 1..Len(normal_priority_queue) :
       /\ normal_priority_queue[i].priority = WASI_NN_PRIORITY_HIGH
       /\ normal_priority_queue[i].id > worker_task.id

\* ------------------------------------------- sessions across a model load
\* C32: whenever load_by_name_with_config succeeds, also after a switch whose
\* load and restore both failed, no session of the earlier model is left in
\* the store (a session is only ever created while a model is loaded, so every
\* session present when the load returns was created under an earlier model)
C32_NoSessionSurvivesALoad ==
  (last.op = "load_by_name_with_config" /\ last.result = "success") =>
    sessions = <<>>

\* ------------------------------------------ the engine after a failed switch
\* safe_model_switch returned runtime_error after load_model(backup_params)
\* succeeded
SwitchRestored ==
  /\ last.op = "load_by_name_with_config"
  /\ last.result = "runtime_error"
  /\ last.model # NULL
  /\ ~last.load_ok
  /\ last.restore_ok

\* C33: when a switch returns after restoring the previous model, the slots
\* and their sampler exist again, so that a session of the store can run
\* inference without another init_execution_context
C33_RestoredSwitchLeavesEngineUsable ==
  (SwitchRestored /\ sessions # <<>>) => smpl # <<>>

\* ------------------------------------------------- the model parameters
\* params.n_ctx = 2048 and params.n_gpu_layers = 0 of parse_config_to_params
DefaultNCtx == 2048
DefaultNGpuLayers == 0

\* the values a configuration gives to "ctx_size" and to "n_gpu_layers"
CtxSizes == {DefaultNCtx, 4096}
GpuLayerCounts == {DefaultNGpuLayers, 32}

\* the configurations a caller passes: nullptr, or a JSON text that sets or
\* omits each of the two keys
Configs ==
  {NoConfig} \cup [present : {TRUE}, n_ctx : CtxSizes \cup {Unset},
                   n_gpu_layers : GpuLayerCounts \cup {Unset}]

\* cjson_get_value(config_obj, key, default_value)
CjsonGetValue(value, default_value) ==
  IF value = Unset THEN default_value ELSE value

\* parse_config_to_params: params = common_params(), the defaults, and then
\* the keys of the configuration
ParseConfigToParams(config) ==
  [n_ctx |-> CjsonGetValue(config.n_ctx, DefaultNCtx),
   n_gpu_layers |-> CjsonGetValue(config.n_gpu_layers, DefaultNGpuLayers)]

\* load_by_name_with_config with the model parameters: the first load parses
\* the configuration into params_base; a switch saves params_base in
\* backup_params, copies it to new_params, parses the configuration, if there
\* is one, into new_params and assigns new_params to params_base before it
\* calls load_model
LoadByNameWithConfigJson(filename, config, load_ok, restore_ok) ==
  /\ LoadModelFile(filename, load_ok, restore_ok)
  /\ UNCHANGED <<max_sessions, idle_timeout_ms, auto_cleanup_enabled,
                 max_concurrent, memVars, polVars, optVars>>
  /\ config_json' = config
  /\ IF model # NULL
     THEN /\ backup_params' = params_base
          /\ params_base' = IF config.present
                            THEN ParseConfigToParams(config)
                            ELSE params_base
     ELSE /\ params_base' = ParseConfigToParams(config)
          /\ UNCHANGED backup_params

InitConfig ==
  /\ Init
  /\ max_sessions = 1
  /\ max_concurrent = 1
  /\ idle_timeout_ms = 1
  /\ auto_cleanup_enabled

\* one caller that loads and switches models with and without a configuration
NextConfig ==
  \E filename \in ModelFiles, config \in Configs, load_ok \in BOOLEAN,
     restore_ok \in BOOLEAN :
    /\ LoadByNameWithConfigJson(filename, config, load_ok, restore_ok)
    /\ UNCHANGED <<thrVars, queueVars>>

SpecConfig == InitConfig /\ [][NextConfig]_vars

\* C34: in a model switch that succeeds, the new configuration is merged onto
\* the base configuration: a key that the new configuration does not set keeps
\* the value params_base had before the switch (backup_params)
C34_SwitchMergesConfiguration ==
  (/\ last.op = "load_by_name_with_config"
   /\ last.model # NULL
   /\ last.result = "success"
   /\ config_json.present) =>
    /\ config_json.n_ctx = Unset => params_base.n_ctx = backup_params.n_ctx
    /\ config_json.n_gpu_layers = Unset =>
         params_base.n_gpu_layers = backup_params.n_gpu_layers

\* ------------------------------------------------------ session handles
\* C35: the handles init_execution_context returns are strictly increasing
\* over the life of the backend. Each handle is the value next_exec_ctx_id has
\* when the session is stored, so this is: no step takes the counter back.
C35_HandleCounterNeverGoesBack ==
  [][next_exec_ctx_id' >= next_exec_ctx_id]_vars

\* ------------------------------------------- the window of a context shift
\* the tokens a sequence holds
TokensOf(cells) == {c.tok : c \in cells}

\* C40: a context shift removes only positions inside [n_keep, n_past): after
\* a shift that returned success, every cell that was below n_keep or at
\* n_past and beyond is where it was, and each sequence has lost at most
\* n_left = n_past - n_keep tokens (none when n_left <= 0)
C40_ShiftStaysInsideWindow ==
  (IsShift /\ last.result = "success") =>
    LET n_past == NPastEstimate(n_ctx)
        n_left == n_past - n_keep_tokens
    IN \A s \in SeqIds :
         /\ \A c \in last.cells[s] :
              (c.pos < n_keep_tokens \/ c.pos >= n_past) => c \in kv_cells[s]
         /\ Cardinality(TokensOf(last.cells[s]) \ TokensOf(kv_cells[s]))
              <= (IF n_left > 0 THEN n_left ELSE 0)

\* ------------------------------------ partial deletion and the token cache
\* the record of a cache call: its session, its result, and the cache and the
\* counters when it began
PCall(op, session_id, result) ==
  [op |-> op, h |-> session_id, result |-> result, cells |-> kv_cells,
   hits |-> cache_hits, misses |-> cache_misses]

\* clear_partial_kv_cache(chat_ctx, session_id, cache_deletion_strategy), as
\* its two callers call it
ClearPartialKvCache(session_id) ==
  /\ kv_cells' = ClearPartialCells(kv_cells, session_id,
                                   cache_deletion_strategy)
  /\ last' = PCall("clear_partial_kv_cache", session_id,
                   ClearPartialResult(cache_deletion_strategy))
  /\ UNCHANGED <<context_shifting_enabled, n_keep_tokens, n_discard_tokens,
                 n_ctx, optVars>>

\* optimize_token_cache(chat_ctx, session_id)
OptimizeTokenCachePass(session_id) ==
  LET pass == OptimizeTokenCache(kv_cells, session_id) IN
  /\ kv_cells' = pass.cells
  /\ cache_hits' = pass.hits
  /\ cache_misses' = pass.misses
  /\ last' = PCall("optimize_token_cache", session_id, pass.result)
  /\ UNCHANGED <<context_shifting_enabled, n_keep_tokens, n_discard_tokens,
                 n_ctx, current_memory_usage>>

\* a backend with or without a loaded model, any cache policy within the
\* bounds, no memory limit, and every sequence filled up to the context size
InitCache ==
  /\ max_sessions = 1
  /\ max_concurrent = 1
  /\ idle_timeout_ms = 1
  /\ auto_cleanup_enabled = TRUE
  /\ sessions = <<>>
  /\ next_exec_ctx_id = 1
  /\ active_sessions = 0
  /\ model \in ModelFiles \cup {NULL}
  /\ params_base_path = (IF model = NULL THEN "" ELSE model)
  /\ current_model_path = params_base_path
  /\ SwapIdle
  /\ SamplerUnset
  /\ context_shifting_enabled = TRUE
  /\ n_ctx \in 1..MaxCacheCtx
  /\ n_keep_tokens \in 0..MaxKeep
  /\ n_discard_tokens = 0
  /\ kv_cells = [s \in SeqIds |-> FilledCells(n_ctx)]
  /\ ParamsUntracked
  /\ enable_partial_cache_deletion \in BOOLEAN
  /\ cache_deletion_strategy \in Strategies
  /\ enable_token_cache_reuse \in BOOLEAN
  /\ max_cache_tokens \in 1..MaxCacheTokens
  /\ cache_hits = 0
  /\ cache_misses = 0
  /\ max_memory_mb = 0
  /\ memory_pressure_threshold = DefaultPressureThreshold
  /\ current_memory_usage = 0
  /\ rss_mb = 0
  /\ now = 0
  /\ last = PCall("init_backend", 0, "success")
  /\ pc = [t \in Threads |-> "idle"]
  /\ t_id = [t \in Threads |-> 0]
  /\ t_cnt = [t \in Threads |-> 0]
  /\ QueueConstructed
  /\ max_queue_size = 1
  /\ default_task_timeout_ms = DefaultTaskTimeout

NextCache ==
  \/ \E session_id \in SeqIds :
       /\ ClearPartialKvCache(session_id)
       /\ UNCHANGED <<max_sessions, idle_timeout_ms, auto_cleanup_enabled,
                      max_concurrent, parVars, polVars, smplVars, ctxVars,
                      modelVars, now, thrVars, queueVars>>
  \/ \E session_id \in SeqIds :
       /\ cache_hits + cache_misses < MaxPasses
       /\ OptimizeTokenCachePass(session_id)
       /\ UNCHANGED <<max_sessions, idle_timeout_ms, auto_cleanup_enabled,
                      max_concurrent, parVars, polVars, smplVars, ctxVars,
                      modelVars, now, thrVars, queueVars>>

SpecCache == InitCache /\ [][NextCache]_vars

\* the positions the documentation names for a strategy, n_past being the
\* estimate of 80 % of the context size
NamedPositions(strategy) ==
  LET n_past == NPastEstimate(n_ctx)
      rest == n_past - n_keep_tokens
  IN IF strategy = "lru" THEN 0..(IntDiv(n_past, 4) - 1)
     ELSE IF strategy = "fifo"
     THEN (n_past - IntDiv(n_past, 4))..(n_past - 1)
     ELSE (n_keep_tokens + IntDiv(rest, 4))..
            (n_keep_tokens + IntDiv(rest, 4) + IntDiv(rest, 2) - 1)

\* C38: a clear_partial_kv_cache that returns success removes from the
\* sequence it is called for exactly the positions its strategy names, lru
\* [0, n_past/4), fifo [n_past - n_past/4, n_past), smart (n_past - n_keep)/2
\* positions from n_keep + (n_past - n_keep)/4 on, and leaves the other
\* sequences alone
C38_PartialDeletionRemovesNamedPositions ==
  (last.op = "clear_partial_kv_cache" /\ last.result = "success") =>
    \A s \in SeqIds :
      kv_cells[s] =
        IF s = last.h
        THEN {c \in last.cells[s] :
                c.pos \notin NamedPositions(cache_deletion_strategy)}
        ELSE last.cells[s]

\* a smart deletion has removed a middle slice that starts behind a kept
\* prefix and is not the whole remainder
C38_Witness ==
  /\ last.op = "clear_partial_kv_cache" /\ last.result = "success"
  /\ cache_deletion_strategy = "smart"
  /\ n_keep_tokens > 0
  /\ kv_cells[last.h] # last.cells[last.h]
  /\ \E c \in kv_cells[last.h] : c.pos = n_keep_tokens

\* C39 as stated: every optimize_token_cache pass with reuse enabled
\* increments exactly one counter, cache_hits when the estimate of 70 % of
\* the context size exceeds max_cache_tokens, cache_misses otherwise
C39_EachPassCountsOnce ==
  (last.op = "optimize_token_cache" /\ enable_token_cache_reuse) =>
    IF (n_ctx * 7) \div 10 > max_cache_tokens
    THEN cache_hits = last.hits + 1 /\ cache_misses = last.misses
    ELSE cache_misses = last.misses + 1 /\ cache_hits = last.hits

\* C39, amended: a pass with reuse enabled that returns success increments
\* exactly one counter, cache_hits after the partial deletion when the
\* estimate exceeds max_cache_tokens and cache_misses otherwise; a pass that
\* fails, for want of a context or because the partial deletion is disabled,
\* increments neither and leaves the cache as it was
C39_EachSuccessfulPassCountsOnce ==
  (last.op = "optimize_token_cache" /\ enable_token_cache_reuse) =>
    IF model = NULL
    THEN /\ last.result = "runtime_error"
         /\ cache_hits = last.hits /\ cache_misses = last.misses
         /\ kv_cells = last.cells
    ELSE IF (n_ctx * 7) \div 10 > max_cache_tokens
    THEN IF enable_partial_cache_deletion
         THEN /\ last.result = "success"
              /\ cache_hits = last.hits + 1 /\ cache_misses = last.misses
         ELSE /\ last.result = "invalid_argument"
              /\ cache_hits = last.hits /\ cache_misses = last.misses
              /\ kv_cells = last.cells
    ELSE /\ last.result = "success"
         /\ cache_misses = last.misses + 1 /\ cache_hits = last.hits
         /\ kv_cells = last.cells

\* a pass has counted a hit after a partial deletion that removed cells
C39_Witness ==
  /\ last.op = "optimize_token_cache" /\ enable_token_cache_reuse
  /\ cache_hits = last.hits + 1
  /\ kv_cells # last.cells

\* ------------------------------------------- compute and the memory policy
\* a memory limit the configuration accepts, in MB
MemoryLimitMb == 128

\* what VmRSS can read, in MB: half the limit and the whole limit
MemoryUsages == {64, MemoryLimitMb}

\* a backend with a loaded model and no session yet, with or without a memory
\* limit, the process using rss_mb, and any cache policy within the bounds;
\* current_memory_usage is 0, as the constructor leaves it
InitPressure ==
  /\ max_sessions = MaxSessionsBound
  /\ max_concurrent = MaxConcurrentBound
  /\ idle_timeout_ms = MaxIdleTimeout
  /\ auto_cleanup_enabled = FALSE
  /\ sessions = <<>>
  /\ next_exec_ctx_id = 1
  /\ active_sessions = 0
  /\ model \in ModelFiles
  /\ params_base_path = model
  /\ current_model_path = model
  /\ SwapIdle
  /\ SamplerUnset
  /\ context_shifting_enabled = TRUE
  /\ n_ctx \in 1..MaxCtx
  /\ n_keep_tokens = 0
  /\ n_discard_tokens = 0
  /\ kv_cells = [s \in SeqIds |-> FilledCells(n_ctx)]
  /\ ParamsUntracked
  /\ enable_partial_cache_deletion \in BOOLEAN
  /\ cache_deletion_strategy = "lru"
  /\ enable_token_cache_reuse \in BOOLEAN
  /\ max_cache_tokens \in 1..MaxCacheTokens
  /\ cache_hits = 0
  /\ cache_misses = 0
  /\ max_memory_mb \in {0, MemoryLimitMb}
  /\ memory_pressure_threshold = DefaultPressureThreshold
  /\ current_memory_usage = 0
  /\ rss_mb \in MemoryUsages
  /\ now = 0
  /\ last = [op |-> "load_by_name_with_config", h |-> 0, result |-> "success"]
  /\ pc = [t \in Threads |-> "idle"]
  /\ t_id = [t \in Threads |-> 0]
  /\ t_cnt = [t \in Threads |-> 0]
  /\ QueueConstructed
  /\ max_queue_size = 1
  /\ default_task_timeout_ms = DefaultTaskTimeout

\* one caller that opens sessions and calls compute on handles it holds and
\* on handles it does not
NextPressure ==
  \/ \E engine_ok \in BOOLEAN :
       InitExecutionContext(engine_ok) /\ UNCHANGED <<thrVars, queueVars>>
  \/ \E exec_ctx \in 1..MaxExecCtx :
       /\ EnqueueBounded(MaxComputeTasks)
       /\ cache_hits + cache_misses < MaxPasses
       /\ Compute(exec_ctx)
       /\ UNCHANGED thrVars

SpecPressure == InitPressure /\ [][NextPressure]_vars

\* C36: compute on a handle that is not in the session store returns
\* invalid_argument and changes nothing: the cache, the hit and miss counters
\* and the queue are as they were
C36_UnknownHandleChangesNothing ==
  (last.op = "compute" /\ last.h \notin DOMAIN last.sessions) =>
    /\ last.result = "invalid_argument"
    /\ kv_cells = last.cells
    /\ cache_hits = last.hits
    /\ cache_misses = last.misses
    /\ current_size = last.size

\* C37: a compute call detects memory pressure exactly when max_memory_mb > 0
\* and the memory the backend uses, divided by max_memory_mb, is at or above
\* memory_pressure_threshold
C37_PressureDetectedAtThreshold ==
  last.op = "compute" =>
    (last.pressure <=>
       (max_memory_mb > 0 /\
        rss_mb * 100 >= memory_pressure_threshold * max_memory_mb))
====
